---- MODULE Spec2Model ----
(***************************************************************************)
(* The annotation-capture components of mathmate-vision.                   *)
(*                                                                         *)
(* The capture components are modelled side by side; `variant` says which   *)
(* one a behaviour is about:                                                *)
(*   "circle"        src/src/components/LiveScreenPreview.tsx               *)
(*   "freehand"      src/unnamed/part_002, lines 1-282                      *)
(*   "plain"         src/unnamed/part_002, lines 283-416                    *)
(*   "screenCapture" src/unnamed/part_000                                   *)
(* Spec is the session controller and the path recorder of the two overlay  *)
(* variants; CaptureSpec adds captureScreen and the two components without  *)
(* an overlay.  SessionSpec lets start requests overlap; ClearSpec also      *)
(* calls the clear handlers on an empty list.  IndexSpec is the Index page  *)
(* (src/src/pages/Index.tsx, src/unnamed/part_003) with its history panel   *)
(* and image upload, UploadSpec its upload version with files of every     *)
(* type; RelaySpec is the david-chat relay                                  *)
(* (src/supabase/functions/david-chat/index.ts); ChatSpec is the DavidChat  *)
(* component (src/unnamed/part_001), ChatFairSpec the same with calls of   *)
(* the relay that return.                                                   *)
(*                                                                         *)
(* Every React event handler is one atomic action that reads the state of   *)
(* the latest render and writes the state of the next one.  The only        *)
(* asynchronous boundary is the await of getDisplayMedia, which is split    *)
(* into the request (startScreenShare) and its two outcomes.                *)
(*                                                                         *)
(* Pointer coordinates are taken from Points, whose pairwise distances are  *)
(* multiples of 20, so that Math.sqrt and the divisions by 2 of the circle  *)
(* variant are exact and are modelled with integer arithmetic.              *)
(***************************************************************************)
EXTENDS Integers, Sequences, FiniteSets

(* ------------------------------ bounds -------------------------------- *)
\* committed shapes kept per component
MaxShapes == 2
\* points in one freehand stroke
MaxPathLen == 2
\* getDisplayMedia requests awaiting the user's answer
MaxPending == 1
\* MediaStream objects that can be alive at once
MaxStreams == 1
\* SessionSpec: at most this many acquisitions await the user at once, and
\* as many distinct streams
MaxOverlap == 2

\* the JavaScript null (a record, so that it compares with points, circles
\* and streams)
NULL == [null |-> TRUE]

\* Pointer positions (e.clientX - rect.left, e.clientY - rect.top) offered to
\* the circle variant.  Distances: 20 (radius 10, the threshold itself),
\* 60 and 80 (radius 30 and 40), and 0 for a click without movement.
Points == {[x |-> 0, y |-> 0], [x |-> 12, y |-> 16], [x |-> 48, y |-> 64]}
\* Pointer positions offered to the freehand variant
PathPoints == {[x |-> 10, y |-> 10], [x |-> 50, y |-> 10]}
\* the MediaStream objects getDisplayMedia can hand out
StreamIds == {[id |-> i] : i \in 1..MaxStreams}

VARIABLES
  variant,        \* which component: "circle" or "freehand"
  isSharing,      \* useState(false)
  stream,         \* useState<MediaStream | null>(null)
  isDrawing,      \* useState(false)
  drawMode,       \* useState(false)
  drawStart,      \* circle: useState<{x, y} | null>(null)
  circles,        \* circle: useState<DrawingCircle[]>([])
  currentCircle,  \* circle: useState<DrawingCircle | null>(null)
  paths,          \* freehand: useState<DrawingPath[]>([])
  currentPath,    \* freehand: useState<Point[]>([])
  pending,        \* getDisplayMedia promises not yet settled
  live,           \* streams whose video track is live (readyState "live")
  pointer,        \* the (x, y) a mouse handler computed last from its event
  lastOp,         \* the handler that ran last
  emitted,        \* the images the last handler passed to onCapture
  toasts,         \* the notifications the last handler passed to toast
  capture,        \* what the last captureScreen read from the video element,
                  \* the scale factors it computed (null if it computed
                  \* none) and the strokes it painted on the canvas; null
                  \* if the handler did not reach the canvas
  playing,        \* screenCapture: video.play() promises not yet settled
  overlay,        \* what the overlay canvas shows: whether the canvas is
                  \* mounted and the strokes drawOverlay painted last
  \* the Index page
  page,           \* which page: "capture" (src/src/pages/Index.tsx) or
                  \* "upload" (src/unnamed/part_003)
  isLoading,      \* useState(false)
  solution,       \* useState<string | null>(null)
  capturedImage,  \* useState<string | null>(null)
  history,        \* useState<HistoryItem[]>([])
  requests,       \* analyze-math invocations in flight: the image of each
  awaitingPlay,   \* upload page: captureScreen calls of ScreenCapture
                  \* suspended at the await of video.play()
  reads,          \* upload page: FileReader loads of ImageUpload not yet
                  \* delivered
  preview,        \* ImageUpload: useState<string | null>(null)
  isDragging,     \* ImageUpload: useState(false)
  file,           \* the file the last handler of ImageUpload received, if
                  \* it received one
  now,            \* Date.now(), counted in completed analyses
  started,        \* analyses started since the page was observed first
  completed,      \* the (image, solution) pairs of the analyses that
                  \* succeeded so far
  indexOp,        \* the handler of the Index page that ran last
  indexToasts,    \* the titles of the toasts that handler raised
  \* the david-chat relay
  apiKey,         \* Deno.env.get('LOVABLE_API_KEY')
  relayPc,        \* where the handler of the current request stands
  req,            \* the request being served
  upstream,       \* the response of the AI gateway, once fetched
  forwarded,      \* the messages of the body of the last fetch
  upstreamCalls,  \* fetch calls made for the current request
  reply,          \* the Response the handler returned
  \* DavidChat
  messages,       \* useState<Message[]>([welcome])
  input,          \* useState(""), as the characters of the text
  chatIsLoading,  \* isLoading of DavidChat: useState(false)
  pendingImage,   \* useState<string | null>(null)
  chatRequests,   \* david-chat invocations in flight: the body of each
  chatReads,      \* FileReader loads of handleImageUpload not yet delivered
  chatNow,        \* Date.now(), counted in sends and replies
  chatSends,      \* messages sent since mount
  chatOp          \* the handler of DavidChat that ran last

\* the state of the capture component
captureVars ==
  <<variant, isSharing, stream, isDrawing, drawMode, drawStart, circles,
    currentCircle, paths, currentPath, pending, live, pointer, lastOp,
    emitted, toasts, capture, playing, overlay>>
\* the state of the Index page and of the ImageUpload it renders
indexVars ==
  <<page, isLoading, solution, capturedImage, history, requests,
    awaitingPlay, reads, preview, isDragging, file, now, started,
    completed, indexOp, indexToasts>>
\* the state of the david-chat relay
relayVars ==
  <<apiKey, relayPc, req, forwarded, upstream, upstreamCalls, reply>>

\* the state of DavidChat
chatVars ==
  <<messages, input, chatIsLoading, pendingImage, chatRequests, chatReads,
    chatNow, chatSends, chatOp>>

vars == <<captureVars, indexVars, relayVars, chatVars>>
\* what a handler of one part leaves alone
outsideCapture == <<indexVars, relayVars, chatVars>>
outsideIndex == <<captureVars, relayVars, chatVars>>
outsideRelay == <<captureVars, indexVars, chatVars>>
outsideChat == <<captureVars, indexVars, relayVars>>

session == <<isSharing, stream, pending, live>>
\* the state of the path recorder of either variant
recorder == <<isDrawing, drawStart, circles, currentCircle, paths, currentPath>>
\* the committed shape list of the component
committed == IF variant = "circle" THEN circles ELSE paths
\* no shape is being dragged
noInProgress ==
  IF variant = "circle"
    THEN currentCircle = NULL /\ drawStart = NULL
    ELSE currentPath = <<>>

(* --------------------------- pure helpers ------------------------------ *)
\* Math.sqrt on the perfect squares the model feeds it
Sqrt(n) == CHOOSE r \in 0..n : r * r = n

\* Math.pow(d, 2)
Pow2(d) == d * d

\* the circle handleMouseMove computes from the anchor a and the pointer p
CircleOf(a, p) ==
  [x |-> (a.x + p.x) \div 2,
   y |-> (a.y + p.y) \div 2,
   radius |-> Sqrt(Pow2(p.x - a.x) + Pow2(p.y - a.y)) \div 2]

\* faulty variant of CommitCircle: the threshold itself is accepted
CommitCircle_atThreshold(prev, c) ==
  IF c # NULL /\ c.radius >= 10 THEN Append(prev, c) ELSE prev

\* setCircles of the circle handleMouseUp
CommitCircle(prev, c) ==
  IF c # NULL /\ c.radius > 10 THEN Append(prev, c) ELSE prev

\* faulty variant of CommitPath: a single point is kept as a path
CommitPath_onePoint(prev, cur) ==
  IF Len(cur) > 0 THEN Append(prev, [points |-> cur]) ELSE prev

\* setPaths of the freehand handleMouseUp
CommitPath(prev, cur) ==
  IF Len(cur) > 1 THEN Append(prev, [points |-> cur]) ELSE prev

(* ------------------------- overlay renderer ---------------------------- *)
\* no overlay canvas is mounted: the canvas is rendered only while isSharing
NoCanvas == [canvas |-> FALSE, strokes |-> <<>>]

\* circles.forEach and the currentCircle branch of drawOverlay: one arc per
\* committed circle, in order, then the arc of the circle being dragged
OverlayCircles(cs, cur) ==
  [i \in 1..Len(cs) |-> [x |-> cs[i].x, y |-> cs[i].y,
                         radius |-> cs[i].radius]]
    \o (IF cur # NULL
          THEN <<[x |-> cur.x, y |-> cur.y, radius |-> cur.radius]>>
          ELSE <<>>)

\* drawPath of the freehand drawOverlay: nothing below two points
DrawPath(points) == IF Len(points) < 2 THEN <<>> ELSE <<points>>

\* paths.forEach(path => drawPath(path.points))
RECURSIVE DrawPaths(_)
DrawPaths(ps) ==
  IF ps = <<>> THEN <<>>
  ELSE DrawPath(Head(ps).points) \o DrawPaths(Tail(ps))

\* faulty variant of OverlayPaths: a path in progress is shown from its
\* first point on
OverlayPaths_fromFirstPoint(ps, cur) ==
  DrawPaths(ps) \o (IF Len(cur) > 0 THEN <<cur>> ELSE <<>>)

\* the committed paths, then the path in progress if it has more than one
\* point
OverlayPaths(ps, cur) ==
  DrawPaths(ps) \o (IF Len(cur) > 1 THEN DrawPath(cur) ELSE <<>>)

\* the drawOverlay effect, run after the render that follows a handler: it
\* returns early unless the canvas is mounted and isSharing, and it runs
\* only when one of its dependencies changed; it clears the canvas and
\* strokes the shapes of the new render.  The two components without an
\* overlay have no such canvas.
drawOverlay ==
  overlay' =
    IF variant \notin {"circle", "freehand"} \/ ~isSharing' THEN NoCanvas
    ELSE IF variant = "circle"
      THEN IF /\ circles' = circles
              /\ currentCircle' = currentCircle
              /\ isSharing' = isSharing
             THEN overlay
             ELSE [canvas |-> TRUE,
                   strokes |-> OverlayCircles(circles', currentCircle')]
      ELSE IF /\ paths' = paths
              /\ currentPath' = currentPath
              /\ isSharing' = isSharing
             THEN overlay
             ELSE [canvas |-> TRUE,
                   strokes |-> OverlayPaths(paths', currentPath')]

(* ------------------------- the other parts ----------------------------- *)
\* the Index page p after mount
IndexMounted(p) ==
  /\ page = p
  /\ isLoading = FALSE
  /\ solution = NULL
  /\ capturedImage = NULL
  /\ history = <<>>
  /\ requests = <<>>
  /\ awaitingPlay = 0
  /\ reads = 0
  /\ preview = NULL
  /\ isDragging = FALSE
  /\ file = NULL
  /\ now = 0
  /\ started = 0
  /\ completed = {}
  /\ indexOp = "mount"
  /\ indexToasts = <<>>

\* JavaScript values that reach JSON.stringify or the || operator
Undefined == [type |-> "undefined"]
JsNull == [type |-> "null"]
Str(s) == [type |-> "string", value |-> s]

\* the first message of the transcript
WelcomeMessage ==
  [id |-> [name |-> "welcome"], role |-> "assistant",
   content |-> Str("Hey! I'm David, your math tutor. Send me pictures of math problems and I'll learn from them!"),
   image |-> Undefined]

\* DavidChat after mount
ChatMounted ==
  /\ messages = <<WelcomeMessage>>
  /\ input = <<>>
  /\ chatIsLoading = FALSE
  /\ pendingImage = NULL
  /\ chatRequests = <<>>
  /\ chatReads = 0
  /\ chatNow = 0
  /\ chatSends = 0
  /\ chatOp = [name |-> "mount"]

\* a configured LOVABLE_API_KEY
ApiKey == [key |-> "configured"]

\* the relay deployed with the environment value k, before any request
RelayDeployed(k) ==
  /\ apiKey = k
  /\ relayPc = "idle"
  /\ req = NULL
  /\ forwarded = <<>>
  /\ upstream = NULL
  /\ upstreamCalls = 0
  /\ reply = NULL

(* ------------------------------- Init ---------------------------------- *)
Init ==
  /\ variant \in {"circle", "freehand"}
  /\ isSharing = FALSE
  /\ stream = NULL
  /\ isDrawing = FALSE
  /\ drawMode = FALSE
  /\ drawStart = NULL
  /\ circles = <<>>
  /\ currentCircle = NULL
  /\ paths = <<>>
  /\ currentPath = <<>>
  /\ pending = 0
  /\ live = {}
  /\ pointer = NULL
  /\ lastOp = "mount"
  /\ emitted = <<>>
  /\ toasts = <<>>
  /\ capture = NULL
  /\ playing = 0
  /\ overlay = NoCanvas
  /\ IndexMounted("capture")
  /\ RelayDeployed(ApiKey)
  /\ ChatMounted

\* a handler that calls neither onCapture nor toast and is not captureScreen
quiet ==
  /\ emitted' = <<>>
  /\ toasts' = <<>>
  /\ capture' = NULL
  /\ UNCHANGED playing

(* ------------------------ session controller --------------------------- *)
\* click on "Start Screen Share" (rendered only while !isSharing): the
\* handler runs up to the await of getDisplayMedia
startScreenShare ==
  /\ ~isSharing
  /\ pending < MaxPending
  /\ pending' = pending + 1
  /\ lastOp' = "startScreenShare"
  /\ quiet
  /\ UNCHANGED <<variant, isSharing, stream, live, drawMode, pointer,
                 isDrawing, drawStart, circles, currentCircle, paths,
                 currentPath>>
  /\ drawOverlay
  /\ UNCHANGED outsideCapture

\* getDisplayMedia resolved with a new stream s: setStream, setIsSharing,
\* and the onended listener is registered on its video track
startResolved(s) ==
  /\ pending > 0
  /\ s \notin live
  /\ pending' = pending - 1
  /\ stream' = s
  /\ isSharing' = TRUE
  /\ live' = live \cup {s}
  /\ lastOp' = "startResolved"
  /\ emitted' = <<>>
  /\ toasts' = <<"Screen sharing started">>
  /\ capture' = NULL
  /\ UNCHANGED playing
  /\ UNCHANGED <<variant, drawMode, pointer, isDrawing, drawStart, circles,
                 currentCircle, paths, currentPath>>
  /\ drawOverlay
  /\ UNCHANGED outsideCapture

\* faulty variant of startRejected: the catch block issues the request
\* again
startRejected_retries ==
  /\ pending > 0
  /\ UNCHANGED pending
  /\ lastOp' = "startRejected"
  /\ emitted' = <<>>
  /\ toasts' = <<"Screen sharing failed">>
  /\ capture' = NULL
  /\ UNCHANGED playing
  /\ UNCHANGED <<variant, isSharing, stream, live, drawMode, pointer,
                 isDrawing, drawStart, circles, currentCircle, paths,
                 currentPath>>
  /\ drawOverlay
  /\ UNCHANGED outsideCapture

\* getDisplayMedia rejected: the catch block only logs and toasts
startRejected ==
  /\ pending > 0
  /\ pending' = pending - 1
  /\ lastOp' = "startRejected"
  /\ emitted' = <<>>
  /\ toasts' = <<"Screen sharing failed">>
  /\ capture' = NULL
  /\ UNCHANGED playing
  /\ UNCHANGED <<variant, isSharing, stream, live, drawMode, pointer,
                 isDrawing, drawStart, circles, currentCircle, paths,
                 currentPath>>
  /\ drawOverlay
  /\ UNCHANGED outsideCapture

\* the "ended" event of the video track of stream s (the user stopped the
\* share from the browser or the OS); fires only for a live track
Circle_onended(s) ==
  /\ variant = "circle"
  /\ s \in live
  /\ live' = live \ {s}
  /\ isSharing' = FALSE
  /\ stream' = NULL
  /\ circles' = <<>>
  /\ lastOp' = "onended"
  /\ quiet
  /\ UNCHANGED <<variant, pending, drawMode, pointer, isDrawing, drawStart,
                 currentCircle, paths, currentPath>>
  /\ drawOverlay
  /\ UNCHANGED outsideCapture

Freehand_onended(s) ==
  /\ variant = "freehand"
  /\ s \in live
  /\ live' = live \ {s}
  /\ isSharing' = FALSE
  /\ stream' = NULL
  /\ paths' = <<>>
  /\ lastOp' = "onended"
  /\ quiet
  /\ UNCHANGED <<variant, pending, drawMode, pointer, isDrawing, drawStart,
                 circles, currentCircle, currentPath>>
  /\ drawOverlay
  /\ UNCHANGED outsideCapture

\* faulty variant of Circle_stopSharing: setCircles([]) is left out
Circle_stopSharing_keepCircles ==
  /\ variant = "circle"
  /\ isSharing
  /\ IF stream # NULL
       THEN live' = live \ {stream} /\ stream' = NULL
       ELSE UNCHANGED <<live, stream>>
  /\ isSharing' = FALSE
  /\ lastOp' = "stopSharing"
  /\ quiet
  /\ UNCHANGED <<variant, pending, drawMode, pointer, isDrawing, drawStart,
                 circles, currentCircle, paths, currentPath>>
  /\ drawOverlay
  /\ UNCHANGED outsideCapture

\* click on the stop button (rendered only while isSharing)
Circle_stopSharing ==
  /\ variant = "circle"
  /\ isSharing
  /\ IF stream # NULL
       THEN live' = live \ {stream} /\ stream' = NULL
       ELSE UNCHANGED <<live, stream>>
  /\ isSharing' = FALSE
  /\ circles' = <<>>
  /\ lastOp' = "stopSharing"
  /\ quiet
  /\ UNCHANGED <<variant, pending, drawMode, pointer, isDrawing, drawStart,
                 currentCircle, paths, currentPath>>
  /\ drawOverlay
  /\ UNCHANGED outsideCapture

Freehand_stopSharing ==
  /\ variant = "freehand"
  /\ isSharing
  /\ IF stream # NULL
       THEN live' = live \ {stream} /\ stream' = NULL
       ELSE UNCHANGED <<live, stream>>
  /\ isSharing' = FALSE
  /\ paths' = <<>>
  /\ lastOp' = "stopSharing"
  /\ quiet
  /\ UNCHANGED <<variant, pending, drawMode, pointer, isDrawing, drawStart,
                 circles, currentCircle, currentPath>>
  /\ drawOverlay
  /\ UNCHANGED outsideCapture

\* faulty variant of toggleDrawMode: switching draw mode off ends the
\* session state
toggleDrawMode_endsSharing ==
  /\ variant \in {"circle", "freehand"}
  /\ isSharing
  /\ drawMode' = ~drawMode
  /\ isSharing' = ~drawMode
  /\ lastOp' = "toggleDrawMode"
  /\ quiet
  /\ UNCHANGED <<variant, stream, pending, live, pointer, isDrawing,
                 drawStart, circles, currentCircle, paths, currentPath>>
  /\ drawOverlay
  /\ UNCHANGED outsideCapture

\* faulty variant of toggleDrawMode: the button only switches draw mode on
toggleDrawMode_switchesOn ==
  /\ variant \in {"circle", "freehand"}
  /\ isSharing
  /\ drawMode' = TRUE
  /\ lastOp' = "toggleDrawMode"
  /\ quiet
  /\ UNCHANGED <<variant, session, pointer, isDrawing, drawStart, circles,
                 currentCircle, paths, currentPath>>
  /\ drawOverlay
  /\ UNCHANGED outsideCapture

\* click on the draw-mode button (rendered only while isSharing)
toggleDrawMode ==
  /\ variant \in {"circle", "freehand"}
  /\ isSharing
  /\ drawMode' = ~drawMode
  /\ lastOp' = "toggleDrawMode"
  /\ quiet
  /\ UNCHANGED <<variant, session, pointer, isDrawing, drawStart, circles,
                 currentCircle, paths, currentPath>>
  /\ drawOverlay
  /\ UNCHANGED outsideCapture

\* click on the eraser (rendered only while isSharing and the list is
\* not empty)
clearCircles ==
  /\ variant = "circle"
  /\ isSharing
  /\ Len(circles) > 0
  /\ circles' = <<>>
  /\ lastOp' = "clear"
  /\ quiet
  /\ UNCHANGED <<variant, session, drawMode, pointer, isDrawing, drawStart,
                 currentCircle, paths, currentPath>>
  /\ drawOverlay
  /\ UNCHANGED outsideCapture

clearDrawings ==
  /\ variant = "freehand"
  /\ isSharing
  /\ Len(paths) > 0
  /\ paths' = <<>>
  /\ currentPath' = <<>>
  /\ lastOp' = "clear"
  /\ quiet
  /\ UNCHANGED <<variant, session, drawMode, pointer, isDrawing, drawStart,
                 circles, currentCircle>>
  /\ drawOverlay
  /\ UNCHANGED outsideCapture

(* --------------------------- path recorder ----------------------------- *)
\* The container div that carries the four mouse handlers is rendered in
\* every state, so containerRef.current is never null after mount and the
\* `if (!rect) return` branches are dead.

\* faulty variant of Circle_handleMouseDown: only drawMode is tested
Circle_handleMouseDown_noSessionGuard(p) ==
  /\ variant = "circle"
  /\ lastOp' = "handleMouseDown"
  /\ quiet
  /\ IF ~drawMode
       THEN UNCHANGED <<pointer, drawStart, isDrawing>>
       ELSE /\ pointer' = p
            /\ drawStart' = p
            /\ isDrawing' = TRUE
  /\ UNCHANGED <<variant, session, drawMode, circles, currentCircle, paths,
                 currentPath>>
  /\ drawOverlay
  /\ UNCHANGED outsideCapture

Circle_handleMouseDown(p) ==
  /\ variant = "circle"
  /\ lastOp' = "handleMouseDown"
  /\ quiet
  /\ IF ~drawMode \/ ~isSharing
       THEN UNCHANGED <<pointer, drawStart, isDrawing>>
       ELSE /\ pointer' = p
            /\ drawStart' = p
            /\ isDrawing' = TRUE
  /\ UNCHANGED <<variant, session, drawMode, circles, currentCircle, paths,
                 currentPath>>
  /\ drawOverlay
  /\ UNCHANGED outsideCapture

\* faulty variant of Circle_handleMouseMove: the circle is committed while it
\* is still being dragged
Circle_handleMouseMove_commits(p) ==
  /\ variant = "circle"
  /\ lastOp' = "handleMouseMove"
  /\ quiet
  /\ IF ~isDrawing \/ drawStart = NULL
       THEN UNCHANGED <<pointer, currentCircle, circles>>
       ELSE /\ pointer' = p
            /\ currentCircle' = CircleOf(drawStart, p)
            /\ circles' = CommitCircle(circles, CircleOf(drawStart, p))
  /\ UNCHANGED <<variant, session, drawMode, isDrawing, drawStart, paths,
                 currentPath>>
  /\ drawOverlay
  /\ UNCHANGED outsideCapture

Circle_handleMouseMove(p) ==
  /\ variant = "circle"
  /\ lastOp' = "handleMouseMove"
  /\ quiet
  /\ IF ~isDrawing \/ drawStart = NULL
       THEN UNCHANGED <<pointer, currentCircle>>
       ELSE /\ pointer' = p
            /\ currentCircle' = CircleOf(drawStart, p)
  /\ UNCHANGED <<variant, session, drawMode, isDrawing, drawStart, circles,
                 paths, currentPath>>
  /\ drawOverlay
  /\ UNCHANGED outsideCapture

\* onMouseUp and onMouseLeave
Circle_handleMouseUp ==
  /\ variant = "circle"
  /\ Len(CommitCircle(circles, currentCircle)) <= MaxShapes
  /\ lastOp' = "handleMouseUp"
  /\ quiet
  /\ circles' = CommitCircle(circles, currentCircle)
  /\ isDrawing' = FALSE
  /\ drawStart' = NULL
  /\ currentCircle' = NULL
  /\ UNCHANGED <<variant, session, drawMode, pointer, paths, currentPath>>
  /\ drawOverlay
  /\ UNCHANGED outsideCapture

Freehand_handleMouseDown(p) ==
  /\ variant = "freehand"
  /\ lastOp' = "handleMouseDown"
  /\ quiet
  /\ IF ~drawMode \/ ~isSharing
       THEN UNCHANGED <<pointer, currentPath, isDrawing>>
       ELSE /\ pointer' = p
            /\ currentPath' = <<p>>
            /\ isDrawing' = TRUE
  /\ UNCHANGED <<variant, session, drawMode, drawStart, circles,
                 currentCircle, paths>>
  /\ drawOverlay
  /\ UNCHANGED outsideCapture

Freehand_handleMouseMove(p) ==
  /\ variant = "freehand"
  /\ (isDrawing /\ drawMode) => Len(currentPath) < MaxPathLen
  /\ lastOp' = "handleMouseMove"
  /\ quiet
  /\ IF ~isDrawing \/ ~drawMode
       THEN UNCHANGED <<pointer, currentPath>>
       ELSE /\ pointer' = p
            /\ currentPath' = Append(currentPath, p)
  /\ UNCHANGED <<variant, session, drawMode, isDrawing, drawStart, circles,
                 currentCircle, paths>>
  /\ drawOverlay
  /\ UNCHANGED outsideCapture

\* faulty variant of Freehand_handleMouseUp: a discarded path stays in
\* progress
Freehand_handleMouseUp_keepsDiscarded ==
  /\ variant = "freehand"
  /\ Len(CommitPath(paths, currentPath)) <= MaxShapes
  /\ lastOp' = "handleMouseUp"
  /\ quiet
  /\ paths' = CommitPath(paths, currentPath)
  /\ isDrawing' = FALSE
  /\ currentPath' = IF Len(currentPath) > 1 THEN <<>> ELSE currentPath
  /\ UNCHANGED <<variant, session, drawMode, pointer, drawStart, circles,
                 currentCircle>>
  /\ drawOverlay
  /\ UNCHANGED outsideCapture

\* onMouseUp and onMouseLeave
Freehand_handleMouseUp ==
  /\ variant = "freehand"
  /\ Len(CommitPath(paths, currentPath)) <= MaxShapes
  /\ lastOp' = "handleMouseUp"
  /\ quiet
  /\ paths' = CommitPath(paths, currentPath)
  /\ isDrawing' = FALSE
  /\ currentPath' = <<>>
  /\ UNCHANGED <<variant, session, drawMode, pointer, drawStart, circles,
                 currentCircle>>
  /\ drawOverlay
  /\ UNCHANGED outsideCapture

(* ------------------- components without an overlay --------------------- *)
\* the "ended" event of the video track of stream s, plain preview
Plain_onended(s) ==
  /\ variant = "plain"
  /\ s \in live
  /\ live' = live \ {s}
  /\ isSharing' = FALSE
  /\ stream' = NULL
  /\ lastOp' = "onended"
  /\ quiet
  /\ UNCHANGED <<variant, pending, drawMode, pointer, recorder>>
  /\ drawOverlay
  /\ UNCHANGED outsideCapture

\* faulty variant of Plain_stopSharing: the tracks are not stopped
Plain_stopSharing_tracksLeftLive ==
  /\ variant = "plain"
  /\ isSharing
  /\ stream' = NULL
  /\ isSharing' = FALSE
  /\ lastOp' = "stopSharing"
  /\ quiet
  /\ UNCHANGED <<variant, live, pending, drawMode, pointer, recorder>>
  /\ drawOverlay
  /\ UNCHANGED outsideCapture

\* click on the stop button of the plain preview
Plain_stopSharing ==
  /\ variant = "plain"
  /\ isSharing
  /\ IF stream # NULL
       THEN live' = live \ {stream} /\ stream' = NULL
       ELSE UNCHANGED <<live, stream>>
  /\ isSharing' = FALSE
  /\ lastOp' = "stopSharing"
  /\ quiet
  /\ UNCHANGED <<variant, pending, drawMode, pointer, recorder>>
  /\ drawOverlay
  /\ UNCHANGED outsideCapture

\* faulty variant of ScreenCapture_onended: setStream(null) is left out
ScreenCapture_onended_keepsStream(s) ==
  /\ variant = "screenCapture"
  /\ s \in live
  /\ live' = live \ {s}
  /\ isSharing' = FALSE
  /\ lastOp' = "onended"
  /\ quiet
  /\ UNCHANGED <<variant, stream, pending, drawMode, pointer, recorder>>
  /\ drawOverlay
  /\ UNCHANGED outsideCapture

\* the "ended" event of the video track of stream s, ScreenCapture
ScreenCapture_onended(s) ==
  /\ variant = "screenCapture"
  /\ s \in live
  /\ live' = live \ {s}
  /\ isSharing' = FALSE
  /\ stream' = NULL
  /\ lastOp' = "onended"
  /\ quiet
  /\ UNCHANGED <<variant, pending, drawMode, pointer, recorder>>
  /\ drawOverlay
  /\ UNCHANGED outsideCapture

\* faulty variant of ScreenCapture_stopSharing: the tracks are not stopped
ScreenCapture_stopSharing_tracksLeftLive ==
  /\ variant = "screenCapture"
  /\ isSharing
  /\ stream' = NULL
  /\ isSharing' = FALSE
  /\ lastOp' = "stopSharing"
  /\ quiet
  /\ UNCHANGED <<variant, live, pending, drawMode, pointer, recorder>>
  /\ drawOverlay
  /\ UNCHANGED outsideCapture

\* click on "Stop" of ScreenCapture
ScreenCapture_stopSharing ==
  /\ variant = "screenCapture"
  /\ isSharing
  /\ IF stream # NULL
       THEN live' = live \ {stream} /\ stream' = NULL
       ELSE UNCHANGED <<live, stream>>
  /\ isSharing' = FALSE
  /\ lastOp' = "stopSharing"
  /\ quiet
  /\ UNCHANGED <<variant, pending, drawMode, pointer, recorder>>
  /\ drawOverlay
  /\ UNCHANGED outsideCapture

(* -------------------------- frame compositor --------------------------- *)
\* what captureScreen can read from the video element: the native size
\* (videoWidth, videoHeight; 0 until playback has started) and the displayed
\* size (offsetWidth, offsetHeight). Every ratio offered is integral.
VideoStates ==
  { [videoWidth |-> 0,    videoHeight |-> 0,   offsetWidth |-> 640, offsetHeight |-> 360],
    [videoWidth |-> 640,  videoHeight |-> 360, offsetWidth |-> 640, offsetHeight |-> 360],
    [videoWidth |-> 1280, videoHeight |-> 720, offsetWidth |-> 640, offsetHeight |-> 360],
    [videoWidth |-> 1280, videoHeight |-> 360, offsetWidth |-> 640, offsetHeight |-> 360],
    [videoWidth |-> 640,  videoHeight |-> 720, offsetWidth |-> 640, offsetHeight |-> 360],
    [videoWidth |-> 640,  videoHeight |-> 360, offsetWidth |-> 0,   offsetHeight |-> 0],
    [videoWidth |-> 640,  videoHeight |-> 360, offsetWidth |-> 0,   offsetHeight |-> 360],
    [videoWidth |-> 0,    videoHeight |-> 0,   offsetWidth |-> 0,   offsetHeight |-> 0] }

\* the two non-finite numbers of JavaScript; every finite number of the
\* compositor is >= 0, so the two are kept apart from them as negative codes
Infinity == -1

NaN == -2

\* faulty variant of IsFinite: the canvas takes every argument
IsFinite_always(v) == TRUE

IsFinite(v) == v >= 0

IsNaN(v) == v = NaN

\* a / b for a, b >= 0: Infinity or NaN when b is 0, else the quotient
\* (defined here only where it is integral)
Div(a, b) ==
  IF b = 0 THEN (IF a = 0 THEN NaN ELSE Infinity)
           ELSE CHOOSE q \in 0..a : q * b = a

\* a * s for a finite a >= 0 and a scale factor s
Mul(a, s) ==
  IF IsFinite(s) THEN a * s
  ELSE IF IsNaN(s) \/ a = 0 THEN NaN ELSE Infinity

\* faulty variant of MathMax: the first argument, whatever the second
MathMax_first(a, b) == a

\* Math.max(a, b)
MathMax(a, b) ==
  IF IsFinite(a) /\ IsFinite(b) THEN (IF a >= b THEN a ELSE b)
  ELSE IF IsNaN(a) \/ IsNaN(b) THEN NaN ELSE Infinity

\* beginPath, arc, stroke for one circle: the canvas ignores an arc with a
\* non-finite argument, and stroking the empty path paints nothing
StrokeCircle(c, scaleX, scaleY) ==
  LET x == Mul(c.x, scaleX)
      y == Mul(c.y, scaleY)
      r == Mul(c.radius, MathMax(scaleX, scaleY))
  IN IF IsFinite(x) /\ IsFinite(y) /\ IsFinite(r)
       THEN <<[x |-> x, y |-> y, radius |-> r]>>
       ELSE <<>>

\* circles.forEach of captureScreen: the strokes painted, in order
RECURSIVE BurnCircles(_, _, _)
BurnCircles(cs, scaleX, scaleY) ==
  IF cs = <<>> THEN <<>>
  ELSE StrokeCircle(Head(cs), scaleX, scaleY)
         \o BurnCircles(Tail(cs), scaleX, scaleY)

\* moveTo / lineTo of the scaled points of one path: the canvas ignores a
\* point with a non-finite coordinate
RECURSIVE ScaledPoints(_, _, _)
ScaledPoints(pts, scaleX, scaleY) ==
  IF pts = <<>> THEN <<>>
  ELSE LET x == Mul(Head(pts).x, scaleX)
           y == Mul(Head(pts).y, scaleY)
       IN (IF IsFinite(x) /\ IsFinite(y) THEN <<[x |-> x, y |-> y]>> ELSE <<>>)
            \o ScaledPoints(Tail(pts), scaleX, scaleY)

\* faulty variant of StrokePath: the points are stroked unscaled
StrokePath_unscaled(path, scaleX, scaleY) ==
  IF Len(path.points) < 2 THEN <<>> ELSE <<path.points>>

\* one path of paths.forEach: skipped below two points; a subpath of fewer
\* than two points paints nothing
StrokePath(path, scaleX, scaleY) ==
  IF Len(path.points) < 2 THEN <<>>
  ELSE LET pts == ScaledPoints(path.points, scaleX, scaleY)
       IN IF Len(pts) >= 2 THEN <<pts>> ELSE <<>>

\* paths.forEach of captureScreen: the strokes painted, in order
RECURSIVE BurnPaths(_, _, _)
BurnPaths(ps, scaleX, scaleY) ==
  IF ps = <<>> THEN <<>>
  ELSE StrokePath(Head(ps), scaleX, scaleY)
         \o BurnPaths(Tail(ps), scaleX, scaleY)

\* the data URL of a canvas without pixels ("data:,")
EmptyDataURL == [width |-> 0, height |-> 0, frame |-> FALSE, strokes |-> <<>>]

\* faulty variant of ToDataURL: the export holds the frame without strokes
ToDataURL_frameOnly(canvas) ==
  IF canvas.width = 0 \/ canvas.height = 0
    THEN EmptyDataURL
    ELSE [canvas EXCEPT !.strokes = <<>>]

\* canvas.toDataURL("image/png")
ToDataURL(canvas) ==
  IF canvas.width = 0 \/ canvas.height = 0 THEN EmptyDataURL ELSE canvas

\* the canvas after drawImage(video, 0, 0) and the strokes: drawImage paints
\* nothing while the video has no frame
Canvas(v, strokes) ==
  [width |-> v.videoWidth, height |-> v.videoHeight,
   frame |-> (v.videoWidth > 0 /\ v.videoHeight > 0), strokes |-> strokes]

\* the scale factors captureScreen computes from the video element
ScaleOf(v) ==
  [x |-> Div(v.videoWidth, v.offsetWidth),
   y |-> Div(v.videoHeight, v.offsetHeight)]

\* faulty variant of Circle_captureScreen: runs without a stream
Circle_captureScreen_noStreamGuard(v) ==
  /\ variant = "circle"
  /\ lastOp' = "captureScreen"
  /\ toasts' = <<>>
  /\ LET strokes == IF Len(circles) > 0
                       THEN BurnCircles(circles, ScaleOf(v).x, ScaleOf(v).y)
                       ELSE <<>>
     IN /\ capture' = [video |-> v,
                       scale |-> IF Len(circles) > 0 THEN ScaleOf(v)
                                 ELSE NULL,
                       strokes |-> strokes]
        /\ emitted' = <<ToDataURL(Canvas(v, strokes))>>
  /\ UNCHANGED <<variant, session, drawMode, pointer, recorder, playing>>
  /\ drawOverlay
  /\ UNCHANGED outsideCapture

\* captureScreen of the circle overlay, the video element showing v. The
\* video element is rendered, and videoRef.current set, exactly while
\* isSharing. The button is rendered only while isSharing; the handler is
\* invoked here in every state.
Circle_captureScreen(v) ==
  /\ variant = "circle"
  /\ lastOp' = "captureScreen"
  /\ toasts' = <<>>
  /\ IF ~isSharing \/ stream = NULL
       THEN /\ capture' = NULL
            /\ emitted' = <<>>
       ELSE LET strokes == IF Len(circles) > 0
                             THEN BurnCircles(circles, ScaleOf(v).x,
                                             ScaleOf(v).y)
                             ELSE <<>>
            IN /\ capture' = [video |-> v,
                              scale |-> IF Len(circles) > 0 THEN ScaleOf(v)
                                        ELSE NULL,
                              strokes |-> strokes]
               /\ emitted' = <<ToDataURL(Canvas(v, strokes))>>
  /\ UNCHANGED <<variant, session, drawMode, pointer, recorder, playing>>
  /\ drawOverlay
  /\ UNCHANGED outsideCapture

\* faulty variant of Freehand_captureScreen: the capture also clears the
\* committed paths
Freehand_captureScreen_clearsPaths(v) ==
  /\ variant = "freehand"
  /\ lastOp' = "captureScreen"
  /\ toasts' = <<>>
  /\ IF ~isSharing \/ stream = NULL
       THEN /\ capture' = NULL
            /\ emitted' = <<>>
            /\ UNCHANGED paths
       ELSE LET strokes == IF Len(paths) > 0
                             THEN BurnPaths(paths, ScaleOf(v).x,
                                           ScaleOf(v).y)
                             ELSE <<>>
            IN /\ capture' = [video |-> v,
                              scale |-> IF Len(paths) > 0 THEN ScaleOf(v)
                                        ELSE NULL,
                              strokes |-> strokes]
               /\ emitted' = <<ToDataURL(Canvas(v, strokes))>>
               /\ paths' = <<>>
  /\ UNCHANGED <<variant, session, drawMode, pointer, isDrawing, drawStart,
                 circles, currentCircle, currentPath, playing>>
  /\ drawOverlay
  /\ UNCHANGED outsideCapture

\* captureScreen of the freehand overlay, the video element showing v
Freehand_captureScreen(v) ==
  /\ variant = "freehand"
  /\ lastOp' = "captureScreen"
  /\ toasts' = <<>>
  /\ IF ~isSharing \/ stream = NULL
       THEN /\ capture' = NULL
            /\ emitted' = <<>>
       ELSE LET strokes == IF Len(paths) > 0
                             THEN BurnPaths(paths, ScaleOf(v).x,
                                           ScaleOf(v).y)
                             ELSE <<>>
            IN /\ capture' = [video |-> v,
                              scale |-> IF Len(paths) > 0 THEN ScaleOf(v)
                                        ELSE NULL,
                              strokes |-> strokes]
               /\ emitted' = <<ToDataURL(Canvas(v, strokes))>>
  /\ UNCHANGED <<variant, session, drawMode, pointer, recorder, playing>>
  /\ drawOverlay
  /\ UNCHANGED outsideCapture

\* captureScreen of the plain preview, the video element showing v
Plain_captureScreen(v) ==
  /\ variant = "plain"
  /\ lastOp' = "captureScreen"
  /\ toasts' = <<>>
  /\ IF ~isSharing \/ stream = NULL
       THEN /\ capture' = NULL
            /\ emitted' = <<>>
       ELSE /\ capture' = [video |-> v, scale |-> NULL, strokes |-> <<>>]
            /\ emitted' = <<ToDataURL(Canvas(v, <<>>))>>
  /\ UNCHANGED <<variant, session, drawMode, pointer, recorder, playing>>
  /\ drawOverlay
  /\ UNCHANGED outsideCapture

\* captureScreen of ScreenCapture up to the await of video.play() on a
\* video element of its own
ScreenCapture_captureScreen ==
  /\ variant = "screenCapture"
  /\ stream # NULL => playing < MaxPending
  /\ lastOp' = "captureScreen"
  /\ toasts' = <<>>
  /\ emitted' = <<>>
  /\ capture' = NULL
  /\ playing' = IF stream = NULL THEN playing ELSE playing + 1
  /\ UNCHANGED <<variant, session, drawMode, pointer, recorder>>
  /\ drawOverlay
  /\ UNCHANGED outsideCapture

\* video.play() resolved, the element showing v: the frame is exported and
\* a notification is raised
ScreenCapture_played(v) ==
  /\ variant = "screenCapture"
  /\ playing > 0
  /\ v.videoWidth > 0 /\ v.videoHeight > 0
  /\ playing' = playing - 1
  /\ lastOp' = "played"
  /\ capture' = [video |-> v, scale |-> NULL, strokes |-> <<>>]
  /\ emitted' = <<ToDataURL(Canvas(v, <<>>))>>
  /\ toasts' = <<"Screen captured!">>
  /\ UNCHANGED <<variant, session, drawMode, pointer, recorder>>
  /\ drawOverlay
  /\ UNCHANGED outsideCapture

\* video.play() rejected: captureScreen ends with the exception
ScreenCapture_playRejected ==
  /\ variant = "screenCapture"
  /\ playing > 0
  /\ playing' = playing - 1
  /\ lastOp' = "playRejected"
  /\ emitted' = <<>>
  /\ toasts' = <<>>
  /\ capture' = NULL
  /\ UNCHANGED <<variant, session, drawMode, pointer, recorder>>
  /\ drawOverlay
  /\ UNCHANGED outsideCapture

(* ------------------------------- Next ---------------------------------- *)
Next ==
  \/ startScreenShare
  \/ \E s \in StreamIds : startResolved(s)
  \/ startRejected
  \/ \E s \in StreamIds : Circle_onended(s)
  \/ \E s \in StreamIds : Freehand_onended(s)
  \/ Circle_stopSharing
  \/ Freehand_stopSharing
  \/ toggleDrawMode
  \/ clearCircles
  \/ clearDrawings
  \/ \E p \in Points : Circle_handleMouseDown(p)
  \/ \E p \in Points : Circle_handleMouseMove(p)
  \/ Circle_handleMouseUp
  \/ \E p \in PathPoints : Freehand_handleMouseDown(p)
  \/ \E p \in PathPoints : Freehand_handleMouseMove(p)
  \/ Freehand_handleMouseUp

Spec == Init /\ [][Next]_vars

(* ---------------------------- CaptureSpec ------------------------------ *)
\* the four capture components after mount
CaptureInit ==
  /\ variant \in {"circle", "freehand", "plain", "screenCapture"}
  /\ isSharing = FALSE
  /\ stream = NULL
  /\ isDrawing = FALSE
  /\ drawMode = FALSE
  /\ drawStart = NULL
  /\ circles = <<>>
  /\ currentCircle = NULL
  /\ paths = <<>>
  /\ currentPath = <<>>
  /\ pending = 0
  /\ live = {}
  /\ pointer = NULL
  /\ lastOp = "mount"
  /\ emitted = <<>>
  /\ toasts = <<>>
  /\ capture = NULL
  /\ playing = 0
  /\ overlay = NoCanvas
  /\ IndexMounted("capture")
  /\ RelayDeployed(ApiKey)
  /\ ChatMounted

\* a mousemove event over the freehand canvas: the pointer has moved to a
\* position other than the last one a handler recorded
Freehand_onMouseMove(p) ==
  /\ p # pointer
  /\ Freehand_handleMouseMove(p)

\* every handler of the four components
CaptureNext ==
  \/ startScreenShare
  \/ \E s \in StreamIds : startResolved(s)
  \/ startRejected
  \/ \E s \in StreamIds : Circle_onended(s)
  \/ \E s \in StreamIds : Freehand_onended(s)
  \/ \E s \in StreamIds : Plain_onended(s)
  \/ \E s \in StreamIds : ScreenCapture_onended(s)
  \/ Circle_stopSharing
  \/ Freehand_stopSharing
  \/ Plain_stopSharing
  \/ ScreenCapture_stopSharing
  \/ toggleDrawMode
  \/ clearCircles
  \/ clearDrawings
  \/ \E p \in Points : Circle_handleMouseDown(p)
  \/ \E p \in Points : Circle_handleMouseMove(p)
  \/ Circle_handleMouseUp
  \/ \E p \in PathPoints : Freehand_handleMouseDown(p)
  \/ \E p \in PathPoints : Freehand_onMouseMove(p)
  \/ Freehand_handleMouseUp
  \/ \E v \in VideoStates : Circle_captureScreen(v)
  \/ \E v \in VideoStates : Freehand_captureScreen(v)
  \/ \E v \in VideoStates : Plain_captureScreen(v)
  \/ ScreenCapture_captureScreen
  \/ \E v \in VideoStates : ScreenCapture_played(v)
  \/ ScreenCapture_playRejected

CaptureSpec == CaptureInit /\ [][CaptureNext]_vars

(* ---------------------------- SessionSpec ------------------------------ *)
\* the streams getDisplayMedia can resolve with in SessionSpec
SessionStreamIds == {[id |-> i] : i \in 1..MaxOverlap}

\* a further click on "Start Screen Share" while an earlier acquisition
\* still awaits the user's choice: the button is rendered while !isSharing
\* and disabled only by the isLoading prop
startScreenShare_again ==
  /\ ~isSharing
  /\ pending > 0
  /\ pending < MaxOverlap
  /\ pending' = pending + 1
  /\ lastOp' = "startScreenShare"
  /\ quiet
  /\ UNCHANGED <<variant, isSharing, stream, live, drawMode, pointer,
                 recorder>>
  /\ drawOverlay
  /\ UNCHANGED outsideCapture

\* the session handlers of the four components, with overlapping start
\* requests and without pointer events
SessionNext ==
  \/ startScreenShare
  \/ startScreenShare_again
  \/ \E s \in SessionStreamIds : startResolved(s)
  \/ startRejected
  \/ \E s \in SessionStreamIds : Circle_onended(s)
  \/ \E s \in SessionStreamIds : Freehand_onended(s)
  \/ \E s \in SessionStreamIds : Plain_onended(s)
  \/ \E s \in SessionStreamIds : ScreenCapture_onended(s)
  \/ Circle_stopSharing
  \/ Freehand_stopSharing
  \/ Plain_stopSharing
  \/ ScreenCapture_stopSharing
  \/ toggleDrawMode

SessionSpec == CaptureInit /\ [][SessionNext]_vars

(* ------------------------------ ClearSpec ------------------------------ *)
\* faulty variant of clearCircles_whenEmpty: the circle in progress is
\* dropped as well
clearCircles_whenEmpty_dropsDrag ==
  /\ variant = "circle"
  /\ isSharing
  /\ Len(circles) = 0
  /\ circles' = <<>>
  /\ currentCircle' = NULL
  /\ lastOp' = "clear"
  /\ quiet
  /\ UNCHANGED <<variant, session, drawMode, pointer, isDrawing, drawStart,
                 paths, currentPath>>
  /\ drawOverlay
  /\ UNCHANGED outsideCapture

\* clearCircles called with an empty list (its button is rendered only
\* while the list is not empty)
clearCircles_whenEmpty ==
  /\ variant = "circle"
  /\ isSharing
  /\ Len(circles) = 0
  /\ circles' = <<>>
  /\ lastOp' = "clear"
  /\ quiet
  /\ UNCHANGED <<variant, session, drawMode, pointer, isDrawing, drawStart,
                 currentCircle, paths, currentPath>>
  /\ drawOverlay
  /\ UNCHANGED outsideCapture

\* clearDrawings called with an empty list
clearDrawings_whenEmpty ==
  /\ variant = "freehand"
  /\ isSharing
  /\ Len(paths) = 0
  /\ paths' = <<>>
  /\ currentPath' = <<>>
  /\ lastOp' = "clear"
  /\ quiet
  /\ UNCHANGED <<variant, session, drawMode, pointer, isDrawing, drawStart,
                 circles, currentCircle>>
  /\ drawOverlay
  /\ UNCHANGED outsideCapture

\* the handlers of Spec, with the two clear handlers called in every state
\* of a session
ClearNext ==
  \/ Next
  \/ clearCircles_whenEmpty
  \/ clearDrawings_whenEmpty

ClearSpec == Init /\ [][ClearNext]_vars

(* ----------------------------- Index page ------------------------------ *)
\* the Index page in its two versions: "capture" renders LiveScreenPreview
\* (src/src/pages/Index.tsx), "upload" renders ImageUpload and ScreenCapture
\* (src/unnamed/part_003).  The capture component is seen through its
\* interface: the capture button, disabled while isLoading, and the
\* onCapture callback; LiveScreenPreview calls onCapture inside the click
\* handler, ScreenCapture after the await of video.play().

\* the length [newItem, ...prev].slice(0, 20) cuts the history to
HistoryCap == 20
\* analyses started in one behaviour of IndexSpec
MaxAnalyses == 2

\* data URLs of captured or uploaded images
Images == {[url |-> "a"], [url |-> "b"]}
\* data.solution of an analyze-math reply
Solutions == {[text |-> "x"], [text |-> "y"]}

\* Array.prototype.slice(0, n)
Slice(seq, n) == SubSeq(seq, 1, IF Len(seq) < n THEN Len(seq) ELSE n)

\* faulty variant of PushHistory: the list is not cut
PushHistory_uncut(prev, newItem) == <<newItem>> \o prev

\* setHistory(prev => [newItem, ...prev].slice(0, 20))
PushHistory(prev, newItem) == Slice(<<newItem>> \o prev, HistoryCap)

\* the sequence q without its i-th element
Without(q, i) == SubSeq(q, 1, i - 1) \o SubSeq(q, i + 1, Len(q))

\* the title of the success toast
SolvedTitle == IF page = "capture" THEN "Answer found!" ELSE "Problem solved!"

\* the history after k analyses in a row of the image "a", each answered
\* with "x", newest first
HistoryAfter(k) ==
  [i \in 1..(IF k < HistoryCap THEN k ELSE HistoryCap) |->
     [id |-> k - i + 1, image |-> [url |-> "a"], solution |-> [text |-> "x"]]]

\* the numbers of earlier analyses IndexSpec starts from
SolvedBefore == {0, HistoryCap - 1, HistoryCap}

\* the capture component of the page (the circle overlay) after mount
LiveScreenPreviewMounted ==
  /\ variant = "circle"
  /\ isSharing = FALSE
  /\ stream = NULL
  /\ isDrawing = FALSE
  /\ drawMode = FALSE
  /\ drawStart = NULL
  /\ circles = <<>>
  /\ currentCircle = NULL
  /\ paths = <<>>
  /\ currentPath = <<>>
  /\ pending = 0
  /\ live = {}
  /\ pointer = NULL
  /\ lastOp = "mount"
  /\ emitted = <<>>
  /\ toasts = <<>>
  /\ capture = NULL
  /\ playing = 0
  /\ overlay = NoCanvas

\* the page after mount, or after k screen captures of the image "a" were
\* analysed one after the other, each answered with "x" (the states k runs
\* of analyzeMathProblem lead to from the mounted page)
IndexInit ==
  /\ LiveScreenPreviewMounted
  /\ RelayDeployed(ApiKey)
  /\ ChatMounted
  /\ page \in {"capture", "upload"}
  /\ \E k \in SolvedBefore :
       /\ history = HistoryAfter(k)
       /\ now = k
       /\ solution = IF k = 0 THEN NULL ELSE [text |-> "x"]
       /\ capturedImage = IF k = 0 THEN NULL ELSE [url |-> "a"]
       /\ completed = IF k = 0 THEN {}
                      ELSE {<<[url |-> "a"], [text |-> "x"]>>}
       /\ indexOp = IF k = 0 THEN "mount" ELSE "analyzeSucceeded"
       /\ indexToasts = IF k = 0 THEN <<>> ELSE <<SolvedTitle>>
  /\ isLoading = FALSE
  /\ requests = <<>>
  /\ awaitingPlay = 0
  /\ reads = 0
  /\ preview = NULL
  /\ isDragging = FALSE
  /\ file = NULL
  /\ started = 0

\* analyzeMathProblem up to the await of supabase.functions.invoke
analyzeMathProblem(imageData) ==
  /\ started < MaxAnalyses
  /\ Len(requests) < MaxOverlap
  /\ started' = started + 1
  /\ isLoading' = TRUE
  /\ solution' = NULL
  /\ capturedImage' = imageData
  /\ requests' = Append(requests, imageData)
  /\ indexToasts' = <<>>
  /\ UNCHANGED <<page, history, now, completed>>

\* capture page: click on the capture button of LiveScreenPreview (disabled
\* while isLoading); captureScreen calls onCapture before it returns
LiveScreenPreview_onCapture(imageData) ==
  /\ page = "capture"
  /\ ~isLoading
  /\ analyzeMathProblem(imageData)
  /\ indexOp' = "onCapture"
  /\ UNCHANGED <<awaitingPlay, reads, preview>>
  /\ file' = NULL
  /\ UNCHANGED isDragging
  /\ UNCHANGED outsideIndex

\* upload page: click on the capture button of ScreenCapture (disabled while
\* isLoading); captureScreen runs up to the await of video.play()
ScreenCapture_onClick ==
  /\ page = "upload"
  /\ ~isLoading
  /\ awaitingPlay < MaxPending
  /\ awaitingPlay' = awaitingPlay + 1
  /\ indexOp' = "captureScreen"
  /\ indexToasts' = <<>>
  /\ UNCHANGED <<page, isLoading, solution, capturedImage, history, requests,
                 reads, preview, now, started, completed>>
  /\ file' = NULL
  /\ UNCHANGED isDragging
  /\ UNCHANGED outsideIndex

\* upload page: video.play() resolved and captureScreen calls onCapture
ScreenCapture_onCapture(imageData) ==
  /\ page = "upload"
  /\ awaitingPlay > 0
  /\ awaitingPlay' = awaitingPlay - 1
  /\ analyzeMathProblem(imageData)
  /\ indexOp' = "onCapture"
  /\ UNCHANGED <<reads, preview>>
  /\ file' = NULL
  /\ UNCHANGED isDragging
  /\ UNCHANGED outsideIndex

\* upload page: video.play() rejected, captureScreen ends without a capture
ScreenCapture_playFailed ==
  /\ page = "upload"
  /\ awaitingPlay > 0
  /\ awaitingPlay' = awaitingPlay - 1
  /\ indexOp' = "playRejected"
  /\ indexToasts' = <<>>
  /\ UNCHANGED <<page, isLoading, solution, capturedImage, history, requests,
                 reads, preview, now, started, completed>>
  /\ file' = NULL
  /\ UNCHANGED isDragging
  /\ UNCHANGED outsideIndex

\* MIME types of the files offered to ImageUpload, as their characters:
\* image/png, image/ alone, text/plain, the word image without a slash, a
\* type that has image/ further in, and the empty type of an unknown file
FileTypes ==
  {<<"i", "m", "a", "g", "e", "/", "p", "n", "g">>,
   <<"i", "m", "a", "g", "e", "/">>,
   <<"t", "e", "x", "t", "/", "p", "l", "a", "i", "n">>,
   <<"i", "m", "a", "g", "e">>,
   <<"x", "/", "i", "m", "a", "g", "e", "/">>,
   <<>>}

Files == {[type |-> ty] : ty \in FileTypes}

\* the image file IndexSpec uploads
ImageFiles == {[type |-> <<"i", "m", "a", "g", "e", "/", "p", "n", "g">>]}

\* String.prototype.startsWith
StartsWith(s, prefix) ==
  /\ Len(s) >= Len(prefix)
  /\ SubSeq(s, 1, Len(prefix)) = prefix

\* faulty variant of handleFile: the type of the file is not tested
handleFile_anyType(f) ==
  /\ reads < MaxPending
  /\ reads' = reads + 1

\* handleFile: a file whose type does not start with image/ is dropped;
\* for an image a FileReader is started
handleFile(f) ==
  IF ~StartsWith(f.type, <<"i", "m", "a", "g", "e", "/">>)
    THEN UNCHANGED reads
    ELSE /\ reads < MaxPending
         /\ reads' = reads + 1

\* upload page: a drop on the drop zone, which is rendered while there is
\* no preview; f is e.dataTransfer.files[0], null if nothing dropped is a
\* file
ImageUpload_handleDrop(f) ==
  /\ page = "upload"
  /\ preview = NULL
  /\ isDragging' = FALSE
  /\ file' = f
  /\ IF f # NULL THEN handleFile(f) ELSE UNCHANGED reads
  /\ indexOp' = "handleDrop"
  /\ indexToasts' = <<>>
  /\ UNCHANGED <<page, isLoading, solution, capturedImage, history, requests,
                 awaitingPlay, preview, now, started, completed>>
  /\ UNCHANGED outsideIndex

\* upload page: the change event of the file input, which is disabled
\* while isLoading; f is e.target.files?.[0]
ImageUpload_handleInputChange(f) ==
  /\ page = "upload"
  /\ preview = NULL
  /\ ~isLoading
  /\ file' = f
  /\ IF f # NULL THEN handleFile(f) ELSE UNCHANGED reads
  /\ indexOp' = "handleInputChange"
  /\ indexToasts' = <<>>
  /\ UNCHANGED <<page, isLoading, solution, capturedImage, history, requests,
                 awaitingPlay, preview, isDragging, now, started, completed>>
  /\ UNCHANGED outsideIndex

\* upload page: something is dragged over the drop zone
ImageUpload_handleDragOver ==
  /\ page = "upload"
  /\ preview = NULL
  /\ isDragging' = TRUE
  /\ file' = NULL
  /\ indexOp' = "handleDragOver"
  /\ indexToasts' = <<>>
  /\ UNCHANGED <<page, isLoading, solution, capturedImage, history, requests,
                 awaitingPlay, reads, preview, now, started, completed>>
  /\ UNCHANGED outsideIndex

\* upload page: the drag leaves the drop zone
ImageUpload_handleDragLeave ==
  /\ page = "upload"
  /\ preview = NULL
  /\ isDragging' = FALSE
  /\ file' = NULL
  /\ indexOp' = "handleDragLeave"
  /\ indexToasts' = <<>>
  /\ UNCHANGED <<page, isLoading, solution, capturedImage, history, requests,
                 awaitingPlay, reads, preview, now, started, completed>>
  /\ UNCHANGED outsideIndex

\* upload page: reader.onload: setPreview(result); onImageSelect(result)
ImageUpload_onload(result) ==
  /\ page = "upload"
  /\ reads > 0
  /\ reads' = reads - 1
  /\ preview' = result
  /\ analyzeMathProblem(result)
  /\ indexOp' = "onload"
  /\ UNCHANGED awaitingPlay
  /\ file' = NULL
  /\ UNCHANGED isDragging
  /\ UNCHANGED outsideIndex

\* upload page: the X button of the preview, disabled while isLoading
ImageUpload_clearPreview ==
  /\ page = "upload"
  /\ preview # NULL
  /\ ~isLoading
  /\ preview' = NULL
  /\ indexOp' = "clearPreview"
  /\ indexToasts' = <<>>
  /\ UNCHANGED <<page, isLoading, solution, capturedImage, history, requests,
                 awaitingPlay, reads, now, started, completed>>
  /\ file' = NULL
  /\ UNCHANGED isDragging
  /\ UNCHANGED outsideIndex

\* the i-th invocation in flight returned data.solution = sol without an
\* error: the rest of the try block and the finally block
analyzeSucceeded(i, sol) ==
  /\ i \in 1..Len(requests)
  /\ LET imageData == requests[i]
         newItem == [id |-> now + 1, image |-> imageData, solution |-> sol]
     IN /\ solution' = sol
        /\ history' = PushHistory(history, newItem)
        /\ completed' = completed \cup {<<imageData, sol>>}
  /\ now' = now + 1
  /\ requests' = Without(requests, i)
  /\ isLoading' = FALSE
  /\ indexOp' = "analyzeSucceeded"
  /\ indexToasts' = <<SolvedTitle>>
  /\ UNCHANGED <<page, capturedImage, awaitingPlay, reads, preview, started>>
  /\ file' = NULL
  /\ UNCHANGED isDragging
  /\ UNCHANGED outsideIndex

\* faulty variant of analyzeFailed: the catch block also empties the
\* history
analyzeFailed_clearsHistory(i) ==
  /\ i \in 1..Len(requests)
  /\ requests' = Without(requests, i)
  /\ isLoading' = FALSE
  /\ history' = <<>>
  /\ indexOp' = "analyzeFailed"
  /\ indexToasts' = <<"Analysis failed">>
  /\ UNCHANGED <<page, solution, capturedImage, awaitingPlay, reads,
                 preview, now, started, completed>>
  /\ file' = NULL
  /\ UNCHANGED isDragging
  /\ UNCHANGED outsideIndex

\* the i-th invocation in flight returned an error, or data with an error
\* field: the catch block and the finally block
analyzeFailed(i) ==
  /\ i \in 1..Len(requests)
  /\ requests' = Without(requests, i)
  /\ isLoading' = FALSE
  /\ indexOp' = "analyzeFailed"
  /\ indexToasts' = <<"Analysis failed">>
  /\ UNCHANGED <<page, solution, capturedImage, history, awaitingPlay, reads,
                 preview, now, started, completed>>
  /\ file' = NULL
  /\ UNCHANGED isDragging
  /\ UNCHANGED outsideIndex

\* click on the j-th item of the history panel
handleHistorySelect(j) ==
  /\ j \in 1..Len(history)
  /\ capturedImage' = history[j].image
  /\ solution' = history[j].solution
  /\ indexOp' = "handleHistorySelect"
  /\ indexToasts' = <<>>
  /\ UNCHANGED <<page, isLoading, history, requests, awaitingPlay, reads,
                 preview, now, started, completed>>
  /\ file' = NULL
  /\ UNCHANGED isDragging
  /\ UNCHANGED outsideIndex

\* click on the clear button of the history panel, which is rendered while
\* the history is not empty
clearHistory ==
  /\ Len(history) > 0
  /\ history' = <<>>
  /\ indexOp' = "clearHistory"
  /\ indexToasts' = <<"History cleared">>
  /\ UNCHANGED <<page, isLoading, solution, capturedImage, requests,
                 awaitingPlay, reads, preview, now, started, completed>>
  /\ file' = NULL
  /\ UNCHANGED isDragging
  /\ UNCHANGED outsideIndex

IndexNext ==
  \/ \E imageData \in Images : LiveScreenPreview_onCapture(imageData)
  \/ ScreenCapture_onClick
  \/ \E imageData \in Images : ScreenCapture_onCapture(imageData)
  \/ ScreenCapture_playFailed
  \/ \E f \in ImageFiles : ImageUpload_handleDrop(f)
  \/ \E f \in ImageFiles : ImageUpload_handleInputChange(f)
  \/ \E result \in Images : ImageUpload_onload(result)
  \/ ImageUpload_clearPreview
  \/ \E i \in 1..MaxOverlap, sol \in Solutions : analyzeSucceeded(i, sol)
  \/ \E i \in 1..MaxOverlap : analyzeFailed(i)
  \/ \E j \in 1..HistoryCap : handleHistorySelect(j)
  \/ clearHistory

IndexSpec == IndexInit /\ [][IndexNext]_vars

(* ----------------------------- UploadSpec ------------------------------ *)
\* the upload page after mount
UploadInit ==
  /\ LiveScreenPreviewMounted
  /\ IndexMounted("upload")
  /\ RelayDeployed(ApiKey)
  /\ ChatMounted

\* the upload page with every kind of file and with the drag handlers of
\* ImageUpload
UploadNext ==
  \/ ScreenCapture_onClick
  \/ \E imageData \in Images : ScreenCapture_onCapture(imageData)
  \/ ScreenCapture_playFailed
  \/ \E result \in Images : ImageUpload_onload(result)
  \/ ImageUpload_clearPreview
  \/ \E i \in 1..MaxOverlap, sol \in Solutions : analyzeSucceeded(i, sol)
  \/ \E i \in 1..MaxOverlap : analyzeFailed(i)
  \/ \E j \in 1..HistoryCap : handleHistorySelect(j)
  \/ clearHistory
  \/ \E f \in Files \cup {NULL} : ImageUpload_handleDrop(f)
  \/ \E f \in Files \cup {NULL} : ImageUpload_handleInputChange(f)
  \/ ImageUpload_handleDragOver
  \/ ImageUpload_handleDragLeave

UploadSpec == UploadInit /\ [][UploadNext]_vars

(* -------------------------- david-chat relay --------------------------- *)
\* the handler passed to serve() in supabase/functions/david-chat/index.ts.
\* It keeps no state between requests; the model follows one request at a
\* time through the awaits of the handler: req.json(), fetch, and the read
\* of the upstream body.

\* the bodies of the requests: text that is not JSON, the JSON value null,
\* an object without a messages field, and objects with a messages array
Bodies ==
  {[kind |-> "unparsable"], [kind |-> "null"], [kind |-> "object"]}
    \cup {[kind |-> "object", messages |-> ms] :
            ms \in {<<>>,
                    <<[role |-> "user", content |-> "2+2?"]>>,
                    <<[role |-> "user", content |-> "", image |-> "data:a"]>>,
                    <<[role |-> "assistant", content |-> "Hi"],
                      [role |-> "user", content |-> "x?", image |-> "data:a"]>>}}

Requests ==
  {[method |-> m, body |-> b] : m \in {"OPTIONS", "POST"}, b \in Bodies}

\* the upstream statuses the handler tells apart (OK, 402, 429) and two
\* other failures
Statuses == {200, 402, 429, 500, 503}

\* what response.json() of an OK upstream response yields: text that is
\* not JSON, the JSON value null, or a completion object whose
\* choices?.[0]?.message?.content is c (undefined when a link of the chain
\* is missing)
UpstreamData ==
  {[kind |-> "notJson"], [kind |-> "null"]}
    \cup {[kind |-> "completion", content |-> c] :
            c \in {Undefined, JsNull, Str(""), Str("4")}}

\* the outcomes of the fetch: a rejection, or a response with a status and,
\* if OK, a body
UpstreamOutcomes ==
  {[kind |-> "rejected"]}
    \cup {[kind |-> "response", status |-> st, data |-> [kind |-> "null"]] :
            st \in Statuses \ {200}}
    \cup {[kind |-> "response", status |-> 200, data |-> d] :
            d \in UpstreamData}

\* the callback of messages.map: a message with an image becomes the
\* multimodal format, its text defaulting when the content is empty
FormatMessage(m) ==
  IF "image" \in DOMAIN m /\ m.image # ""
    THEN [role |-> m.role,
          content |-> <<[type |-> "image_url", url |-> m.image],
                        [type |-> "text",
                         text |-> IF m.content # "" THEN m.content
                                  ELSE "What math problem is in this image?"]>>]
    ELSE [role |-> m.role, content |-> <<[type |-> "text", text |-> m.content]>>]

\* the names of the headers in corsHeaders
CorsHeaders ==
  {"Access-Control-Allow-Origin", "Access-Control-Allow-Headers"}

\* faulty variant of JSONStringify: an undefined field is written as null
JSONStringify_undefinedAsNull(obj) ==
  [k \in DOMAIN obj |-> IF obj[k] = Undefined THEN JsNull ELSE obj[k]]

\* JSON.stringify of an object: a field whose value is undefined is left
\* out
JSONStringify(obj) ==
  [k \in {f \in DOMAIN obj : obj[f] # Undefined} |-> obj[k]]

\* new Response(JSON.stringify(obj), { status, headers })
JsonResponse(st, obj) ==
  [status |-> st, hasBody |-> TRUE, json |-> JSONStringify(obj),
   headers |-> CorsHeaders \cup {"Content-Type"}]

\* the catch block: status 500 with the message of the error
ErrorResponse(message) == JsonResponse(500, [error |-> Str(message)])

\* `AI gateway error: ${response.status}`
GatewayError(st) ==
  CASE st = 500 -> "AI gateway error: 500"
    [] st = 503 -> "AI gateway error: 503"
    [] st = 402 -> "AI gateway error: 402"
    [] st = 429 -> "AI gateway error: 429"
    [] OTHER -> "AI gateway error"

\* the relay deployed with or without a configured key, before any request
RelayInit ==
  /\ LiveScreenPreviewMounted
  /\ IndexMounted("capture")
  /\ \E k \in {ApiKey, NULL} : RelayDeployed(k)
  /\ ChatMounted

\* a request arrives: an OPTIONS request is answered at once with the CORS
\* headers and no body; otherwise the handler awaits req.json()
relay_receive(r) ==
  /\ relayPc \in {"idle", "done"}
  /\ req' = r
  /\ upstream' = NULL
  /\ upstreamCalls' = 0
  /\ forwarded' = <<>>
  /\ IF r.method = "OPTIONS"
       THEN /\ reply' = [status |-> 200, hasBody |-> FALSE, json |-> <<>>,
                         headers |-> CorsHeaders]
            /\ relayPc' = "done"
       ELSE /\ reply' = NULL
            /\ relayPc' = "parsing"
  /\ UNCHANGED apiKey
  /\ UNCHANGED outsideRelay

\* req.json() settled: the destructuring, the key check, messages.map and
\* the call of fetch; an exception takes the handler to the catch block
relay_parsed ==
  /\ relayPc = "parsing"
  /\ IF req.body.kind = "unparsable"
       THEN /\ reply' = ErrorResponse("Unexpected token in JSON")
            /\ relayPc' = "done"
            /\ UNCHANGED <<forwarded, upstreamCalls>>
     ELSE IF req.body.kind = "null"
       THEN /\ reply' = ErrorResponse("Cannot destructure property 'messages'")
            /\ relayPc' = "done"
            /\ UNCHANGED <<forwarded, upstreamCalls>>
     ELSE IF apiKey = NULL
       THEN /\ reply' = ErrorResponse("LOVABLE_API_KEY is not configured")
            /\ relayPc' = "done"
            /\ UNCHANGED <<forwarded, upstreamCalls>>
     ELSE IF "messages" \notin DOMAIN req.body
       THEN /\ reply' = ErrorResponse("Cannot read properties of undefined")
            /\ relayPc' = "done"
            /\ UNCHANGED <<forwarded, upstreamCalls>>
     ELSE /\ forwarded' = [i \in 1..Len(req.body.messages) |->
                             FormatMessage(req.body.messages[i])]
          /\ upstreamCalls' = upstreamCalls + 1
          /\ relayPc' = "fetching"
          /\ UNCHANGED reply
  /\ UNCHANGED <<apiKey, req, upstream>>
  /\ UNCHANGED outsideRelay

\* the fetch settled with the outcome u
relay_fetched(u) ==
  /\ relayPc = "fetching"
  /\ IF u.kind = "rejected"
       THEN /\ reply' = ErrorResponse("fetch failed")
            /\ relayPc' = "done"
            /\ UNCHANGED upstream
       ELSE /\ upstream' = u
            /\ relayPc' = "reading"
            /\ UNCHANGED reply
  /\ UNCHANGED <<apiKey, req, forwarded, upstreamCalls>>
  /\ UNCHANGED outsideRelay

\* faulty variant of relay_bodyRead: every upstream failure goes to the
\* catch block
relay_bodyRead_noStatusMapping ==
  /\ relayPc = "reading"
  /\ relayPc' = "done"
  /\ reply' =
       IF ~(upstream.status >= 200 /\ upstream.status <= 299)
         THEN ErrorResponse(GatewayError(upstream.status))
       ELSE IF upstream.data.kind = "notJson"
         THEN ErrorResponse("Unexpected token in JSON")
       ELSE IF upstream.data.kind = "null"
         THEN ErrorResponse("Cannot read properties of null")
       ELSE JsonResponse(200, [response |-> upstream.data.content])
  /\ UNCHANGED <<apiKey, req, upstream, forwarded, upstreamCalls>>
  /\ UNCHANGED outsideRelay

\* the upstream body was read (response.text() if !response.ok, else
\* response.json()) and the handler returns
relay_bodyRead ==
  /\ relayPc = "reading"
  /\ relayPc' = "done"
  /\ reply' =
       IF ~(upstream.status >= 200 /\ upstream.status <= 299)
         THEN IF upstream.status = 429
                THEN JsonResponse(429,
                       [error |-> Str("Rate limit exceeded. Please try again in a moment.")])
              ELSE IF upstream.status = 402
                THEN JsonResponse(402,
                       [error |-> Str("Usage limit reached. Please add credits to continue.")])
              ELSE ErrorResponse(GatewayError(upstream.status))
       ELSE IF upstream.data.kind = "notJson"
         THEN ErrorResponse("Unexpected token in JSON")
       ELSE IF upstream.data.kind = "null"
         THEN ErrorResponse("Cannot read properties of null")
       ELSE JsonResponse(200, [response |-> upstream.data.content])
  /\ UNCHANGED <<apiKey, req, upstream, forwarded, upstreamCalls>>
  /\ UNCHANGED outsideRelay

RelayNext ==
  \/ \E r \in Requests : relay_receive(r)
  \/ relay_parsed
  \/ \E u \in UpstreamOutcomes : relay_fetched(u)
  \/ relay_bodyRead

RelaySpec == RelayInit /\ [][RelayNext]_vars

(* ------------------------------ DavidChat ------------------------------- *)
\* messages sent in one behaviour of ChatSpec
MaxSends == 2

\* milliseconds of Date.now() between one handler of DavidChat and the next
Elapsed == {1}

\* data URLs a FileReader of DavidChat delivers
ChatImages == {[url |-> "a"]}

\* texts the user can leave in the input field, as characters
Inputs == {<<>>, <<" ">>, <<" ", "h", "i", " ">>}

\* a typed text as a JavaScript string value
Typed(cs) == [type |-> "string", chars |-> cs]

\* String.prototype.trim without the cut at either end
Trim_none(s) == s

RECURSIVE TrimStart(_)
\* the text without its leading white space
TrimStart(s) ==
  IF Len(s) > 0 /\ s[1] = " " THEN TrimStart(Tail(s)) ELSE s

RECURSIVE TrimEnd(_)
\* the text without its trailing white space
TrimEnd(s) ==
  IF Len(s) > 0 /\ s[Len(s)] = " "
  THEN TrimEnd(SubSeq(s, 1, Len(s) - 1))
  ELSE s

\* String.prototype.trim
Trim(s) == TrimEnd(TrimStart(s))

\* the values JavaScript's || and ! treat as false, among those that occur
Falsy(v) == v \in {Undefined, JsNull, Str(""), Typed(<<>>)}

\* a || b
Or(a, b) == IF Falsy(a) THEN b ELSE a

\* what supabase.functions.invoke resolves to: an error, or the data of a
\* reply of the relay with its response field
ChatReplies ==
  {[error |-> TRUE]} \cup
  {[error |-> FALSE, data |-> [response |-> v]] :
     v \in {Undefined, Str(""), Str("4")}}

\* the body of the request: role, content and image of every message
RequestMessages(ms) ==
  [i \in 1..Len(ms) |->
     [role |-> ms[i].role, content |-> ms[i].content, image |-> ms[i].image]]

\* the message the catch block appends
ApologyMessage(t) ==
  [id |-> [ms |-> t + 1], role |-> "assistant",
   content |-> Str("Oops! Something went wrong. Please try again."),
   image |-> Undefined]

\* the message the try block appends for the data of a reply
AssistantMessage(t, data) ==
  [id |-> [ms |-> t + 1], role |-> "assistant",
   content |-> Or(data.response,
                  Str("Sorry, I couldn't process that. Try again!")),
   image |-> Undefined]

\* onChange of the text field, which is disabled while isLoading
setInput(v) ==
  /\ ~chatIsLoading
  /\ input' = v
  /\ chatOp' = [name |-> "setInput"]
  /\ UNCHANGED <<messages, chatIsLoading, pendingImage, chatRequests,
                 chatReads, chatNow, chatSends>>
  /\ UNCHANGED outsideChat

\* onChange of the hidden file input, opened by a button that is disabled
\* while isLoading; f is NULL when no file was chosen
handleImageUpload(f) ==
  /\ ~chatIsLoading
  /\ IF f = NULL
     THEN UNCHANGED chatReads
     ELSE /\ chatReads < MaxPending
          /\ chatReads' = chatReads + 1
  /\ chatOp' = [name |-> "handleImageUpload"]
  /\ UNCHANGED <<messages, input, chatIsLoading, pendingImage, chatRequests,
                 chatNow, chatSends>>
  /\ UNCHANGED outsideChat

\* reader.onload of handleImageUpload
DavidChat_onload(result) ==
  /\ chatReads > 0
  /\ chatReads' = chatReads - 1
  /\ pendingImage' = result
  /\ chatOp' = [name |-> "onload"]
  /\ UNCHANGED <<messages, input, chatIsLoading, chatRequests, chatNow,
                 chatSends>>
  /\ UNCHANGED outsideChat

\* click on the X of the pending image, rendered while there is one
removePendingImage ==
  /\ pendingImage # NULL
  /\ pendingImage' = NULL
  /\ chatOp' = [name |-> "removePendingImage"]
  /\ UNCHANGED <<messages, input, chatIsLoading, chatRequests, chatReads,
                 chatNow, chatSends>>
  /\ UNCHANGED outsideChat

\* sendMessage without the isLoading part of its guard
sendMessage_ignoresLoading ==
  /\ chatOp' = [name |-> "sendMessage"]
  /\ IF Falsy(Typed(Trim(input))) /\ pendingImage = NULL
     THEN UNCHANGED <<messages, input, pendingImage, chatIsLoading,
                      chatRequests, chatNow, chatSends>>
     ELSE /\ chatSends < MaxSends
          /\ \E d \in Elapsed :
               LET userMessage ==
                     [id |-> [ms |-> chatNow + d], role |-> "user",
                      content |-> Or(Typed(Trim(input)),
                                     Str("Check this problem")),
                      image |-> IF pendingImage = NULL THEN Undefined
                                ELSE pendingImage]
               IN /\ messages' = Append(messages, userMessage)
                  /\ chatRequests' =
                       Append(chatRequests,
                              [messages |->
                                 RequestMessages(Append(messages,
                                                        userMessage))])
                  /\ chatNow' = chatNow + d
          /\ input' = <<>>
          /\ pendingImage' = NULL
          /\ chatIsLoading' = TRUE
          /\ chatSends' = chatSends + 1
  /\ UNCHANGED chatReads
  /\ UNCHANGED outsideChat

\* sendMessage up to its await: the guard, the user message, the four state
\* updates and the invocation of the relay; d is the time since the last
\* message
sendMessage ==
  /\ chatOp' = [name |-> "sendMessage"]
  /\ IF (Falsy(Typed(Trim(input))) /\ pendingImage = NULL) \/ chatIsLoading
     THEN UNCHANGED <<messages, input, pendingImage, chatIsLoading,
                      chatRequests, chatNow, chatSends>>
     ELSE /\ chatSends < MaxSends
          /\ \E d \in Elapsed :
               LET userMessage ==
                     [id |-> [ms |-> chatNow + d], role |-> "user",
                      content |-> Or(Typed(Trim(input)),
                                     Str("Check this problem")),
                      image |-> IF pendingImage = NULL THEN Undefined
                                ELSE pendingImage]
               IN /\ messages' = Append(messages, userMessage)
                  /\ chatRequests' =
                       Append(chatRequests,
                              [messages |->
                                 RequestMessages(Append(messages,
                                                        userMessage))])
                  /\ chatNow' = chatNow + d
          /\ input' = <<>>
          /\ pendingImage' = NULL
          /\ chatIsLoading' = TRUE
          /\ chatSends' = chatSends + 1
  /\ UNCHANGED chatReads
  /\ UNCHANGED outsideChat

\* the rest of sendMessage with the finally block left out
sendMessage_resumed_keepsLoading(i, r) ==
  /\ i \in 1..Len(chatRequests)
  /\ chatRequests' = Without(chatRequests, i)
  /\ \E d \in Elapsed :
       /\ chatNow' = chatNow + d
       /\ messages' =
            Append(messages,
                   IF r.error THEN ApologyMessage(chatNow + d)
                   ELSE AssistantMessage(chatNow + d, r.data))
  /\ chatOp' = [name |-> "resumed", reply |-> r]
  /\ UNCHANGED <<input, chatIsLoading, pendingImage, chatReads, chatSends>>
  /\ UNCHANGED outsideChat

\* the rest of sendMessage, once the i-th invocation in flight resolved to
\* r: the assistant message of the try block or of the catch block, then
\* the finally block
sendMessage_resumed(i, r) ==
  /\ i \in 1..Len(chatRequests)
  /\ chatRequests' = Without(chatRequests, i)
  /\ \E d \in Elapsed :
       /\ chatNow' = chatNow + d
       /\ messages' =
            Append(messages,
                   IF r.error THEN ApologyMessage(chatNow + d)
                   ELSE AssistantMessage(chatNow + d, r.data))
  /\ chatIsLoading' = FALSE
  /\ chatOp' = [name |-> "resumed", reply |-> r]
  /\ UNCHANGED <<input, pendingImage, chatReads, chatSends>>
  /\ UNCHANGED outsideChat

\* DavidChat after mount, the rest of the application as mounted
ChatInit ==
  /\ LiveScreenPreviewMounted
  /\ IndexMounted("capture")
  /\ RelayDeployed(ApiKey)
  /\ ChatMounted

ChatNext ==
  \/ \E v \in Inputs : setInput(v)
  \/ \E f \in ChatImages \cup {NULL} : handleImageUpload(f)
  \/ \E result \in ChatImages : DavidChat_onload(result)
  \/ removePendingImage
  \/ sendMessage
  \/ \E i \in 1..Len(chatRequests) : \E r \in ChatReplies :
       sendMessage_resumed(i, r)

ChatSpec == ChatInit /\ [][ChatNext]_vars

\* ChatSpec in which an invocation of the relay in flight returns
ChatFairSpec ==
  /\ ChatSpec
  /\ WF_vars(\E i \in 1..Len(chatRequests) : \E r \in ChatReplies :
               sendMessage_resumed(i, r))

(* ------------------------------ claims --------------------------------- *)
\* the last element of a non-empty sequence
Last(q) == q[Len(q)]

\* C1: every step that takes isSharing from true to false (stopSharing or
\* the track's onended) leaves the committed shape list empty.
C1_EndOfSessionClearsShapes ==
  [][(isSharing /\ ~isSharing') => committed' = <<>>]_vars

\* C1 witness: the stream of a freehand session in which draw mode had been
\* switched on has ended, and the list is empty.
C1_Witness ==
  /\ variant = "freehand"
  /\ lastOp = "onended"
  /\ ~isSharing
  /\ drawMode
  /\ paths = <<>>

\* C2 (as claimed): whenever isSharing is false the committed shape list is
\* empty.
C2_IdleImpliesNoShapes == ~isSharing => committed = <<>>

\* C3 (as claimed): in the state right after isSharing became true the
\* committed list is empty and no shape is in progress.
C3_StartResetsShapes ==
  [][(~isSharing /\ isSharing') => (committed' = <<>> /\ noInProgress')]_vars

\* C4 (as claimed): while isSharing is false a mouse down or a mouse move
\* leaves the whole recorder state unchanged.
C4_IdlePointerEventsAreNoOps ==
  [][(~isSharing /\ lastOp' \in {"handleMouseDown", "handleMouseMove"})
       => UNCHANGED recorder]_vars

C6_FreehandCommit ==
  /\ [](\A i \in 1..Len(paths) : Len(paths[i].points) >= 2)
  /\ [][(variant = "freehand" /\ lastOp' = "handleMouseUp") =>
          IF Len(currentPath) < 2
            THEN paths' = paths
            ELSE /\ Len(paths') = Len(paths) + 1
                 /\ SubSeq(paths', 1, Len(paths)) = paths
                 /\ Last(paths').points = currentPath]_vars

\* C6 witness: a release has appended a second, different path behind the
\* first one.
C6_Witness ==
  /\ variant = "freehand"
  /\ lastOp = "handleMouseUp"
  /\ Len(paths) = 2
  /\ paths[1] # paths[2]

\* C7: the circle handleMouseUp discards an in-progress circle of radius
\* <= 10 and appends one of radius > 10 at the end; every committed circle
\* has radius > 10.
C7_CircleCommit ==
  /\ [](\A i \in 1..Len(circles) : circles[i].radius > 10)
  /\ [][(variant = "circle" /\ lastOp' = "handleMouseUp") =>
          IF currentCircle = NULL \/ currentCircle.radius <= 10
            THEN circles' = circles
            ELSE /\ Len(circles') = Len(circles) + 1
                 /\ SubSeq(circles', 1, Len(circles)) = circles
                 /\ Last(circles') = currentCircle]_vars

\* C7 witness: a release has appended a second, different circle behind the
\* first one.
C7_Witness ==
  /\ variant = "circle"
  /\ lastOp = "handleMouseUp"
  /\ Len(circles) = 2
  /\ circles[1] # circles[2]

\* the claimed geometry of circle c for the anchor a and the point p
Anchored(c, a, p) ==
  /\ 2 * c.x = a.x + p.x
  /\ 2 * c.y = a.y + p.y
  /\ (2 * c.radius) * (2 * c.radius) =
       (p.x - a.x) * (p.x - a.x) + (p.y - a.y) * (p.y - a.y)

\* C8 (as claimed): a circle committed at release has the midpoint of the
\* drag anchor and the release point as its center and half their distance
\* as its radius, and so has the in-progress circle after each extend.
C8_CircleGeometry ==
  [][variant = "circle" =>
       /\ (lastOp' = "handleMouseUp" /\ Len(circles') > Len(circles))
            => Anchored(Last(circles'), drawStart, pointer)
       /\ (lastOp' = "handleMouseMove" /\ currentCircle' # currentCircle)
            => Anchored(currentCircle', drawStart', pointer')]_vars

\* C9: after every handleMouseUp isDrawing is false and no shape is in
\* progress, whether or not a shape was appended.
C9_CommitClearsInProgress ==
  lastOp = "handleMouseUp" => (~isDrawing /\ noInProgress)

\* C9 witness: a freehand drag was released without anything being appended.
C9_Witness ==
  /\ variant = "freehand"
  /\ lastOp = "handleMouseUp"
  /\ isSharing /\ drawMode
  /\ pointer # NULL
  /\ paths = <<>>
  /\ ~isDrawing /\ currentPath = <<>>

\* C10: mouse down and mouse move never change the committed list, and the
\* list grows only in a handleMouseUp step, by exactly one shape at the end.
C10_GrowsOnlyOnRelease ==
  [][/\ lastOp' \in {"handleMouseDown", "handleMouseMove"}
          => committed' = committed
     /\ Len(committed') > Len(committed)
          => /\ lastOp' = "handleMouseUp"
             /\ Len(committed') = Len(committed) + 1
             /\ SubSeq(committed', 1, Len(committed)) = committed]_vars

\* C10 witness: the first circle of a session has just been committed by a
\* release.
C10_Witness ==
  /\ variant = "circle"
  /\ lastOp = "handleMouseUp"
  /\ isSharing
  /\ Len(circles) = 1

\* C11: a captureScreen that runs while stream is null hands nothing to
\* onCapture, raises no notification and changes no state, in each of the
\* four components.
C11_CaptureWithoutStreamIsNoOp ==
  [][(lastOp' = "captureScreen" /\ stream = NULL) =>
       /\ emitted' = <<>>
       /\ toasts' = <<>>
       /\ capture' = NULL
       /\ UNCHANGED <<variant, session, drawMode, recorder, playing>>]_vars

\* C11 witness: captureScreen of the circle overlay has run after the
\* session was stopped, with no stream.
C11_Witness ==
  /\ variant = "circle"
  /\ lastOp = "captureScreen"
  /\ stream = NULL
  /\ live = {}
  /\ ~isSharing
  /\ emitted = <<>>

\* C12 (as claimed): a captureScreen that runs with a stream while the
\* video element still reports a native size of 0 hands nothing to
\* onCapture.
C12_NoCaptureBeforePlayback ==
  (/\ lastOp = "captureScreen"
   /\ stream # NULL
   /\ capture # NULL
   /\ capture.video.videoWidth = 0
   /\ capture.video.videoHeight = 0) => emitted = <<>>

\* C13: a captureScreen that runs while isSharing, in the two overlays and
\* the plain preview, calls onCapture exactly once and leaves isSharing,
\* stream, drawMode, the committed shapes and the shape in progress as they
\* were.
C13_CaptureIsSelfLoop ==
  [][(lastOp' = "captureScreen" /\ isSharing /\ variant # "screenCapture") =>
       /\ Len(emitted') = 1
       /\ UNCHANGED <<isSharing, stream, drawMode, recorder>>]_vars

\* C13 witness: a freehand capture with one committed path and a second
\* path in progress has emitted one image with a frame.
C13_Witness ==
  /\ variant = "freehand"
  /\ lastOp = "captureScreen"
  /\ isSharing
  /\ Len(paths) = 1
  /\ isDrawing
  /\ Len(currentPath) > 0
  /\ Len(emitted) = 1
  /\ emitted[1].frame

\* C14: a freehand capture with a displayed size other than 0 strokes one
\* line per committed path, in the committed order, through the points
\* (x * scaleX, y * scaleY) of the path in their order, with
\* scaleX = videoWidth / offsetWidth and scaleY = videoHeight / offsetHeight;
\* the path in progress is not stroked; with a native size other than 0 the
\* strokes are in the exported image. At 1280 native over 640 displayed the
\* point (100,100) is stroked at (200,200).
C14_FreehandBurnIn ==
  /\ (/\ variant = "freehand"
      /\ lastOp = "captureScreen"
      /\ capture # NULL
      /\ capture.video.offsetWidth > 0
      /\ capture.video.offsetHeight > 0) =>
       LET v == capture.video
           drawn == capture.strokes
       IN /\ Len(drawn) = Len(paths)
          /\ \A i \in 1..Len(paths) :
               /\ Len(drawn[i]) = Len(paths[i].points)
               /\ \A j \in 1..Len(drawn[i]) :
                    /\ drawn[i][j].x * v.offsetWidth
                         = paths[i].points[j].x * v.videoWidth
                    /\ drawn[i][j].y * v.offsetHeight
                         = paths[i].points[j].y * v.videoHeight
          /\ (v.videoWidth > 0 /\ v.videoHeight > 0) =>
               emitted = <<[width |-> v.videoWidth, height |-> v.videoHeight,
                            frame |-> TRUE, strokes |-> drawn]>>
  /\ BurnPaths(<<[points |-> <<[x |-> 100, y |-> 100], [x |-> 50, y |-> 10]>>]>>,
               Div(1280, 640), Div(720, 360))
       = << <<[x |-> 200, y |-> 200], [x |-> 100, y |-> 20]>> >>

\* C14 witness: a capture at twice the displayed size has stroked the
\* committed path (10,10)-(50,10) from (20,20) to (100,20) while another
\* path was in progress.
C14_Witness ==
  /\ variant = "freehand"
  /\ lastOp = "captureScreen"
  /\ capture # NULL
  /\ capture.video.videoWidth = 1280
  /\ capture.video.offsetWidth = 640
  /\ paths = <<[points |-> <<[x |-> 10, y |-> 10], [x |-> 50, y |-> 10]>>]>>
  /\ currentPath # <<>>
  /\ emitted[1].strokes = << <<[x |-> 20, y |-> 20], [x |-> 100, y |-> 20]>> >>

\* the larger of two integers
Larger(a, b) == IF a >= b THEN a ELSE b

\* C15: a circle capture with a displayed size other than 0 strokes one
\* circle per committed circle, in the committed order, with centre
\* (x * scaleX, y * scaleY) and radius radius * max(scaleX, scaleY), which
\* is at least radius * scaleX and at least radius * scaleY; with a native
\* size other than 0 the strokes are in the exported image.
C15_CircleBurnIn ==
  (/\ variant = "circle"
   /\ lastOp = "captureScreen"
   /\ capture # NULL
   /\ capture.video.offsetWidth > 0
   /\ capture.video.offsetHeight > 0) =>
    LET v == capture.video
        drawn == capture.strokes
    IN /\ Len(drawn) = Len(circles)
       /\ \A i \in 1..Len(circles) :
            /\ drawn[i].x * v.offsetWidth = circles[i].x * v.videoWidth
            /\ drawn[i].y * v.offsetHeight = circles[i].y * v.videoHeight
            /\ drawn[i].radius * v.offsetWidth * v.offsetHeight
                 = Larger(circles[i].radius * v.videoWidth * v.offsetHeight,
                          circles[i].radius * v.videoHeight * v.offsetWidth)
            /\ drawn[i].radius * v.offsetWidth
                 >= circles[i].radius * v.videoWidth
            /\ drawn[i].radius * v.offsetHeight
                 >= circles[i].radius * v.videoHeight
       /\ (v.videoWidth > 0 /\ v.videoHeight > 0) =>
            emitted = <<[width |-> v.videoWidth, height |-> v.videoHeight,
                         frame |-> TRUE, strokes |-> drawn]>>

\* C15 witness: with scaleX = 1 and scaleY = 2 the committed circle of
\* centre (24,32) and radius 40 was stroked at (24,64) with radius 80.
C15_Witness ==
  /\ variant = "circle"
  /\ lastOp = "captureScreen"
  /\ capture # NULL
  /\ capture.video.videoWidth = capture.video.offsetWidth
  /\ capture.video.videoHeight = 2 * capture.video.offsetHeight
  /\ circles = <<[x |-> 24, y |-> 32, radius |-> 40]>>
  /\ emitted[1].strokes = <<[x |-> 24, y |-> 64, radius |-> 80]>>

\* the last captureScreen reached the canvas with committed shapes and a
\* displayed width or height of 0
ZeroDisplayCapture ==
  /\ lastOp = "captureScreen"
  /\ capture # NULL
  /\ committed # <<>>
  /\ (capture.video.offsetWidth = 0 \/ capture.video.offsetHeight = 0)

AfterOneStroke ==
  /\ variant = "freehand"
  /\ isSharing
  /\ stream # NULL
  /\ drawMode
  /\ ~isDrawing
  /\ currentPath = <<>>
  /\ pointer = [x |-> 50, y |-> 10]
  /\ paths = <<[points |-> <<[x |-> 10, y |-> 10], [x |-> 50, y |-> 10]>>]>>

\* C17: a capture taken in the state the scenario leads to, with the native
\* size equal to the displayed size, calls onCapture exactly once, with an
\* image that holds the frame and one stroke from (10,10) to (50,10).
C17_EndToEndFreehand ==
  (/\ AfterOneStroke
   /\ lastOp = "captureScreen"
   /\ capture # NULL
   /\ capture.video.videoWidth > 0
   /\ capture.video.videoHeight > 0
   /\ capture.video.videoWidth = capture.video.offsetWidth
   /\ capture.video.videoHeight = capture.video.offsetHeight) =>
    emitted = <<[width |-> capture.video.videoWidth,
                 height |-> capture.video.videoHeight,
                 frame |-> TRUE,
                 strokes |-> << <<[x |-> 10, y |-> 10],
                                  [x |-> 50, y |-> 10]>> >>]>>

\* C17 witness: the scenario has run to its capture at 640x360 native and
\* displayed, with no start request left open.
C17_Witness ==
  /\ AfterOneStroke
  /\ lastOp = "captureScreen"
  /\ pending = 0
  /\ capture # NULL
  /\ capture.video = [videoWidth |-> 640, videoHeight |-> 360,
                      offsetWidth |-> 640, offsetHeight |-> 360]
  /\ Len(emitted) = 1
  /\ Len(emitted[1].strokes) = 1

\* C18: the step in which an acquisition fails leaves isSharing, stream,
\* the tracks, drawMode and every shape variable as they were (so an idle
\* component stays idle, with stream null), raises exactly the one
\* notification "Screen sharing failed", and issues no acquisition request:
\* the failed request is gone, and the number of open requests grows only
\* by a click on the start button.
C18_FailedStartChangesNothing ==
  [][/\ lastOp' = "startRejected" =>
          /\ UNCHANGED <<isSharing, stream, live, drawMode, recorder>>
          /\ (~isSharing /\ stream = NULL) => (~isSharing' /\ stream' = NULL)
          /\ toasts' = <<"Screen sharing failed">>
          /\ emitted' = <<>>
          /\ pending' = pending - 1
     /\ pending' > pending => lastOp' = "startScreenShare"]_vars

\* C18 witness: the one acquisition ScreenCapture had requested has failed;
\* the component is idle with no request open and one notification raised.
C18_Witness ==
  /\ variant = "screenCapture"
  /\ lastOp = "startRejected"
  /\ ~isSharing
  /\ stream = NULL
  /\ pending = 0
  /\ toasts = <<"Screen sharing failed">>

\* C19: isSharing goes from false to true only in the step in which an
\* acquisition of startScreenShare succeeds, and that step holds the new
\* stream with the ended listener of its video track registered; isSharing
\* goes from true to false only in stopSharing or in the ended event of a
\* track whose listener was registered; capture, the draw-mode toggle,
\* clearing and the pointer events leave isSharing as it was.
C19_SessionTransitions ==
  [][/\ (~isSharing /\ isSharing') =>
          /\ lastOp' = "startResolved"
          /\ stream' # NULL
          /\ stream' \notin live
          /\ stream' \in live'
     /\ (isSharing /\ ~isSharing') =>
          \/ lastOp' = "stopSharing"
          \/ lastOp' = "onended" /\ \E s \in live : s \notin live'
     /\ lastOp' \in {"captureScreen", "played", "playRejected",
                     "toggleDrawMode", "clear", "handleMouseDown",
                     "handleMouseMove", "handleMouseUp"} =>
          isSharing' = isSharing]_vars

\* C19 witness: a session of the plain preview was started and has been
\* ended by the ended event of its track.
C19_Witness ==
  /\ variant = "plain"
  /\ lastOp = "onended"
  /\ ~isSharing
  /\ stream = NULL
  /\ live = {}
  /\ pending = 0

\* C20: a stopSharing that runs while isSharing with a stream leaves that
\* stream without a live track, stream null, isSharing false and the
\* committed shape list empty.
C20_StopReleasesStream ==
  [][(lastOp' = "stopSharing" /\ isSharing /\ stream # NULL) =>
       /\ stream \notin live'
       /\ stream' = NULL
       /\ ~isSharing'
       /\ committed' = <<>>]_vars

\* C20 witness: ScreenCapture was stopped while sharing; no track is live.
C20_Witness ==
  /\ variant = "screenCapture"
  /\ lastOp = "stopSharing"
  /\ ~isSharing
  /\ stream = NULL
  /\ live = {}

\* the ended event of some track can be delivered to the component
EndedEventPossible ==
  ENABLED (\E s \in SessionStreamIds :
             \/ Circle_onended(s)
             \/ Freehand_onended(s)
             \/ Plain_onended(s)
             \/ ScreenCapture_onended(s))

C22_SingleOwnedStream ==
  /\ live \subseteq {stream}
  /\ lastOp = "stopSharing" => live = {}

\* C28: in every reachable state of each of the four components isSharing
\* is true exactly when stream is not null.
C28_SharingIffStream == isSharing <=> stream # NULL

\* C28 witness: two start requests overlapped and both resolved; the ended
\* event of one of the two streams has set isSharing false and stream null
\* while the other stream is still live.
C28_Witness ==
  /\ variant = "screenCapture"
  /\ lastOp = "onended"
  /\ ~isSharing
  /\ stream = NULL
  /\ Cardinality(live) = 1
  /\ pending = 0

\* C23: a click on the draw-mode button negates drawMode and leaves
\* isSharing, stream, the live tracks, the open requests, the committed
\* shapes and the shape in progress as they were; a second click right
\* after it negates drawMode again, which restores the value before the
\* first.
C23_ToggleFlipsDrawModeOnly ==
  [][lastOp' = "toggleDrawMode" =>
       /\ drawMode' = ~drawMode
       /\ UNCHANGED <<isSharing, stream, live, pending, recorder>>]_vars

\* C23 witness: draw mode was switched off by a second click during a
\* circle drag, with one circle committed and one in progress.
C23_Witness ==
  /\ variant = "circle"
  /\ lastOp = "toggleDrawMode"
  /\ ~drawMode
  /\ isSharing
  /\ Len(circles) = 1
  /\ isDrawing
  /\ currentCircle # NULL

ShownAs(sh) == IF variant = "circle" THEN sh ELSE sh.points

\* the shape in progress as the overlay shows it: the circle being dragged,
\* or the freehand path once it has two points; the empty sequence if none
InProgressShown ==
  IF variant = "circle"
    THEN (IF currentCircle # NULL THEN <<currentCircle>> ELSE <<>>)
    ELSE (IF Len(currentPath) >= 2 THEN <<currentPath>> ELSE <<>>)

\* C27: while an overlay component is sharing, in every reachable state
\* (hence after every mutation of the committed list or of the shape in
\* progress) the overlay canvas shows one stroke per committed shape, in
\* committed order, followed by the shape in progress last, a freehand path
\* in progress being shown only once it has 2 or more points; and a capture
\* that exports an image leaves the overlay as it is and paints at most the
\* committed shapes, so the shape in progress the overlay shows is not in
\* the export
C27_OverlayShowsCommittedThenInProgress ==
  /\ [](variant \in {"circle", "freehand"} /\ isSharing =>
          /\ overlay.canvas
          /\ Len(overlay.strokes) = Len(committed) + Len(InProgressShown)
          /\ \A i \in 1..Len(committed) :
               overlay.strokes[i] = ShownAs(committed[i])
          /\ InProgressShown # <<>> =>
               Last(overlay.strokes) = InProgressShown[1])
  /\ [][lastOp' = "captureScreen" /\ capture' # NULL =>
          /\ overlay' = overlay
          /\ Len(capture'.strokes) <= Len(committed)]_vars

\* C27 witness: a sharing freehand overlay that shows a committed path and,
\* last, a path in progress of two points
C27_Witness ==
  /\ variant = "freehand"
  /\ isSharing
  /\ Len(paths) >= 1
  /\ Len(currentPath) >= 2
  /\ Len(overlay.strokes) = Len(paths) + 1
  /\ Last(overlay.strokes) = currentPath

(* ------------------------------- C25 ----------------------------------- *)
\* C25: the solve history never holds more than 20 items and is ordered
\* newest first (ids strictly decreasing); a successful analysis puts
\* exactly one new item, the one of the analysed image and its solution, in
\* front of the previous items, which keep their order and lose their
\* oldest item exactly when there were 20 of them; clearHistory empties
\* the list; no other step changes it
C25_HistoryCappedNewestFirst ==
  /\ [](/\ Len(history) <= 20
        /\ \A i \in 1..(Len(history) - 1) : history[i].id > history[i + 1].id)
  /\ [][/\ now' # now =>
             /\ Len(history') = (IF Len(history) = 20 THEN 20
                                 ELSE Len(history) + 1)
             /\ history'[1].id = now'
             /\ history'[1].solution = solution'
             /\ \E i \in 1..Len(requests) :
                  /\ history'[1].image = requests[i]
                  /\ requests' = Without(requests, i)
             /\ Tail(history') = SubSeq(history, 1, Len(history') - 1)
        /\ indexOp' = "clearHistory" => history' = <<>>
        /\ (now' = now /\ indexOp' # "clearHistory") => history' = history
       ]_vars

\* C25 witness: an analysis succeeded when the history held 20 items: it
\* still holds 20, the new item in front
C25_Witness ==
  /\ indexOp = "analyzeSucceeded"
  /\ started > 0
  /\ now > HistoryCap
  /\ Len(history) = HistoryCap
  /\ history[1].id = now

(* ------------------------------- C29 ----------------------------------- *)
\* C29: whenever a solution is set, the captured image and the solution
\* are the image and the solution of one analysis that completed
C29_SolutionBelongsToImage ==
  solution # NULL => <<capturedImage, solution>> \in completed

(* ------------------------------- C30 ----------------------------------- *)
\* C30: isLoading is true in every state in which an analyze-math request
\* is in flight, and at most one request is in flight at a time, on either
\* version of the Index page
C30_LoadingWhileInFlight ==
  /\ Len(requests) > 0 => isLoading
  /\ Len(requests) <= 1

(* ------------------------------- C26 ----------------------------------- *)
\* C26: every reply of the relay to a request other than OPTIONS has a JSON
\* body in which exactly one of the fields response and error is present,
\* and that field is a string
C26_ReplyHasResponseOrError ==
  (relayPc = "done" /\ req.method # "OPTIONS") =>
    /\ reply.hasBody
    /\ ("response" \in DOMAIN reply.json) # ("error" \in DOMAIN reply.json)
    /\ \A k \in DOMAIN reply.json : reply.json[k].type = "string"

ErrorReply(st) ==
  /\ reply.status = st
  /\ reply.hasBody
  /\ DOMAIN reply.json = {"error"}
  /\ reply.json["error"].type = "string"

\* C35: when the handler has returned, an upstream 429 has given status
\* 429 and an upstream 402 status 402, each with an error message of its
\* own; any other non-OK upstream status, a missing LOVABLE_API_KEY and an
\* unparsable body have given status 500 with an error message; an OPTIONS
\* request has been answered with the CORS headers and no body, the
\* upstream not contacted; and without a key the upstream is never
\* contacted
C35_FailureStatusMapping ==
  /\ apiKey = NULL => upstreamCalls = 0
  /\ relayPc = "done" =>
       /\ CorsHeaders \subseteq reply.headers
       /\ req.method = "OPTIONS" =>
            /\ ~reply.hasBody
            /\ upstreamCalls = 0
            /\ upstream = NULL
       /\ (req.method # "OPTIONS" /\ req.body.kind = "unparsable") =>
            ErrorReply(500)
       /\ (req.method # "OPTIONS" /\ apiKey = NULL) => ErrorReply(500)
       /\ upstream # NULL =>
            /\ upstream.status = 429 =>
                 /\ ErrorReply(429)
                 /\ reply.json["error"].value =
                      "Rate limit exceeded. Please try again in a moment."
            /\ upstream.status = 402 =>
                 /\ ErrorReply(402)
                 /\ reply.json["error"].value =
                      "Usage limit reached. Please add credits to continue."
            /\ upstream.status \notin {200, 402, 429} => ErrorReply(500)

\* C35 witness: the handler returned status 429 for an upstream 429
C35_Witness ==
  /\ relayPc = "done"
  /\ upstream # NULL
  /\ upstream.status = 429
  /\ reply.status = 429
  /\ upstreamCalls = 1

(* ------------------------------- C36 ----------------------------------- *)
\* the type of the file f spells image/ in its first six characters
IsImageFile(f) ==
  /\ Len(f.type) >= 6
  /\ f.type[1] = "i" /\ f.type[2] = "m" /\ f.type[3] = "a"
  /\ f.type[4] = "g" /\ f.type[5] = "e" /\ f.type[6] = "/"

\* C36: a selected or dropped file whose type does not start with image/
\* changes neither preview nor the pending reads and starts no analysis
\* (onImageSelect is not invoked); a file that is an image starts exactly
\* one read, and the delivery of a read invokes onImageSelect exactly once,
\* with the data URL it stores as preview; onImageSelect is invoked by
\* nothing else in ImageUpload; after a drop isDragging is false
C36_UploadFiltersAndForwardsOnce ==
  [][/\ indexOp' \in {"handleDrop", "handleInputChange"} =>
          /\ UNCHANGED <<preview, requests, started, isLoading>>
          /\ reads' = IF file' # NULL /\ IsImageFile(file')
                        THEN reads + 1 ELSE reads
     /\ indexOp' = "handleDrop" => isDragging' = FALSE
     /\ indexOp' = "onload" =>
          /\ reads' = reads - 1
          /\ preview' # NULL
          /\ requests' = Append(requests, preview')
          /\ capturedImage' = preview'
     /\ indexOp' \in {"handleDragOver", "handleDragLeave", "clearPreview"} =>
          UNCHANGED <<requests, reads>>
    ]_vars

\* C36 witness: a file of a type other than image/ was dropped:
\* no read is pending, there is no preview, no analysis was started and
\* isDragging is false
C36_Witness ==
  /\ indexOp = "handleDrop"
  /\ file # NULL
  /\ ~IsImageFile(file)
  /\ Len(file.type) > 0
  /\ reads = 0
  /\ preview = NULL
  /\ started = 0
  /\ ~isDragging

\* the text holds nothing but white space
Blank(s) == \A k \in 1..Len(s) : s[k] = " "

\* C32: a call of sendMessage made while a request is loading, or with an
\* input that is empty once trimmed and no pending image, changes none of
\* messages, input, pendingImage, isLoading and sends no request; any other
\* call appends exactly one user message to the transcript, empties input
\* and pendingImage, and sends exactly one request, whose messages are the
\* prior transcript followed by the new user message, in order.
C32_SendMessageGuardAndRequest ==
  [][chatOp'.name = "sendMessage" =>
       IF chatIsLoading \/ (Blank(input) /\ pendingImage = NULL)
       THEN UNCHANGED <<messages, input, pendingImage, chatIsLoading,
                        chatRequests>>
       ELSE /\ Len(messages') = Len(messages) + 1
            /\ SubSeq(messages', 1, Len(messages)) = messages
            /\ Last(messages').role = "user"
            /\ input' = <<>>
            /\ pendingImage' = NULL
            /\ Len(chatRequests') = Len(chatRequests) + 1
            /\ SubSeq(chatRequests', 1, Len(chatRequests)) = chatRequests
            /\ LET sent == Last(chatRequests').messages
               IN /\ DOMAIN sent = DOMAIN messages'
                  /\ \A k \in DOMAIN sent :
                       /\ sent[k].role = messages'[k].role
                       /\ sent[k].content = messages'[k].content
                       /\ sent[k].image = messages'[k].image]_vars

\* C32 witness: the second message was sent with a blank input and a pending
\* image; it carries the image and the default text, and the request in
\* flight holds the four messages of the transcript.
C32_Witness ==
  /\ chatOp.name = "sendMessage"
  /\ Len(messages) = 4
  /\ Last(messages).role = "user"
  /\ Last(messages).content = Str("Check this problem")
  /\ Last(messages).image \in ChatImages
  /\ input = <<>>
  /\ pendingImage = NULL
  /\ Len(chatRequests) = 1
  /\ DOMAIN chatRequests[1].messages = 1..4

\* the number of messages of one role in a transcript
Count(ms, role) == Cardinality({k \in 1..Len(ms) : ms[k].role = role})

\* C33: every accepted send is answered by exactly one assistant message:
\* at any time the user messages are as many as the assistant messages after
\* the welcome plus the requests in flight; the return of a call appends
\* one assistant message, which is the apology when the call failed, the
\* fallback text when the reply's response is empty and the response
\* otherwise, and leaves isLoading false; and when calls return, the n-th
\* send leads to a state with n answers and isLoading false.
C33_EverySendAnsweredOnce ==
  /\ [](Count(messages, "user")
          = Count(messages, "assistant") - 1 + Len(chatRequests))
  /\ [][chatOp'.name = "resumed" =>
          /\ Len(messages') = Len(messages) + 1
          /\ SubSeq(messages', 1, Len(messages)) = messages
          /\ Last(messages').role = "assistant"
          /\ Last(messages').content =
               (IF chatOp'.reply.error
                THEN Str("Oops! Something went wrong. Please try again.")
                ELSE IF chatOp'.reply.data.response \in {Undefined, Str("")}
                THEN Str("Sorry, I couldn't process that. Try again!")
                ELSE chatOp'.reply.data.response)
          /\ Len(chatRequests') = Len(chatRequests) - 1
          /\ ~chatIsLoading']_vars
  /\ \A n \in 1..MaxSends :
       (chatSends = n)
         ~> (Count(messages, "assistant") = n + 1 /\ ~chatIsLoading)

\* C33 witness: the second send was answered by a reply with an empty
\* response; the transcript ends with the fallback text and nothing is
\* loading.
C33_Witness ==
  /\ chatOp.name = "resumed"
  /\ ~chatOp.reply.error
  /\ chatOp.reply.data.response = Str("")
  /\ chatSends = 2
  /\ Len(messages) = 5
  /\ Last(messages).content = Str("Sorry, I couldn't process that. Try again!")
  /\ chatRequests = <<>>
  /\ ~chatIsLoading

\* C34: the transcript starts with the welcome message, no two consecutive
\* messages have the same role, and no step removes or reorders a message:
\* the transcript before a step is a prefix of the transcript after it.
C34_TranscriptAppendOnlyAlternating ==
  /\ [](/\ Len(messages) >= 1
        /\ messages[1] = WelcomeMessage
        /\ \A k \in 1..(Len(messages) - 1) :
             messages[k].role # messages[k + 1].role)
  /\ [][/\ Len(messages') >= Len(messages)
        /\ SubSeq(messages', 1, Len(messages)) = messages]_vars

\* C34 witness: sendMessage was called while the first answer was pending
\* and an image had arrived; the transcript still ends with the one user
\* message after the second assistant message.
C34_Witness ==
  /\ chatOp.name = "sendMessage"
  /\ chatIsLoading
  /\ pendingImage # NULL
  /\ Len(messages) = 4
  /\ messages[3].role = "assistant"
  /\ messages[4].role = "user"
  /\ Len(chatRequests) = 1

====
